---------------------------- MODULE Spec2Model ----------------------------
(***************************************************************************)
(* Model of the adasa supervision engine: the process registry             *)
(* (ProcessManager), the lifecycle operations spawn / stop / restart /     *)
(* rolling restart / remove, the restart policy and tracker, and the       *)
(* daemon tasks that drive them under the registry's RwLock (the command   *)
(* handler and the supervisor loop).  The operating system is modelled by  *)
(* a process table `os` (pid -> free / alive / zombie).  Time is kept in    *)
(* seconds and relative to the present: a restart timestamp is stored as   *)
(* its age, a timer as the time it still has to run.                       *)
(***************************************************************************)
EXTENDS Integers, Sequences, FiniteSets, TLC

(***************************************************************************)
(* Bounds of the model.                                                    *)
(***************************************************************************)
MaxId == 2
MaxSpawns == 3
MaxSpawnsRolling == 4
MaxRequestDigits == 4

(***************************************************************************)
(* Program constants.                                                      *)
(***************************************************************************)
TimeWindowSecs == 60
HealthCheckDelaySecs == 3
MaxDelaySecs == 60
FirstId == 1

(* Width of the unsigned integers used for the backoff arithmetic.  The    *)
(* source uses u64; the model keeps the saturating arithmetic at a width   *)
(* the checker's integers can hold.                                        *)
IntBits == 12

(* Width of the restart count once cast (restart_count as u32); the count  *)
(* itself is a usize, which is wider on a 64-bit build.                    *)
CastBits == 4

Pids == 1..(IF MaxSpawns > MaxSpawnsRolling THEN MaxSpawns ELSE MaxSpawnsRolling)

RECURSIVE Pow(_, _)
Pow(b, n) == IF n = 0 THEN 1 ELSE b * Pow(b, n - 1)

UMax == Pow(2, IntBits) - 1

Min(a, b) == IF a < b THEN a ELSE b

SatMul(a, b) == IF a * b > UMax THEN UMax ELSE a * b

RECURSIVE SatPow(_, _)
SatPow(b, n) == IF n = 0 THEN 1 ELSE SatMul(b, SatPow(b, n - 1))

(***************************************************************************)
(* Names.  A name is a sequence of tokens; the string is the tokens joined *)
(* by "-".  format!("{}-{}", base, i) appends the token of i.              *)
(***************************************************************************)
IdxTok(i) == CASE i = 0 -> "0" [] i = 1 -> "1" [] OTHER -> "2"

InstanceName(base, i) == Append(base, IdxTok(i))

StartsWithDash(n, base) ==
    /\ Len(n) > Len(base)
    /\ SubSeq(n, 1, Len(base)) = base

(***************************************************************************)
(* Inputs: the configurations a client may submit.                         *)
(***************************************************************************)
TargetInputs == { <<"web">>, InstanceName(<<"web">>, 0) }
ValidSignals ==
    { "SIGTERM", "SIGINT", "SIGQUIT", "SIGKILL", "SIGHUP", "SIGUSR1", "SIGUSR2" }

\* max_memory: None, max_cpu: None
NoLimit == 0 - 1

\* The configurations a client submits: two replicas of "web", one restarted
\* automatically with a backoff and a stop signal of its own, the other
\* with auto-restart disabled and no grace period, and a configuration
\* that validate rejects.
Configs ==
    { [ name |-> InstanceName(<<"web">>, 0), autorestart |-> TRUE,
        max_restarts |-> 2,
        restart_delay_secs |-> 1, stop_signal |-> "SIGINT",
        stop_timeout_secs |-> 1,
        max_memory |-> NoLimit, max_cpu |-> NoLimit,
        limit_action |-> "Log" ],
      [ name |-> InstanceName(<<"web">>, 1), autorestart |-> FALSE,
        max_restarts |-> 1,
        restart_delay_secs |-> 0, stop_signal |-> "SIGTERM",
        stop_timeout_secs |-> 0,
        max_memory |-> NoLimit, max_cpu |-> NoLimit,
        limit_action |-> "Log" ],
      [ name |-> InstanceName(<<"web">>, 1), autorestart |-> FALSE,
        max_restarts |-> 1,
        restart_delay_secs |-> 0, stop_signal |-> "SIGSTOP",
        stop_timeout_secs |-> 0,
        max_memory |-> NoLimit, max_cpu |-> NoLimit,
        limit_action |-> "Log" ] }

\* Stands for "no id" where a handler has none to report.
NoId == FirstId - 1

VARIABLES
    processes,    \* ProcessManager.processes: id -> ManagedProcess
    next_id,      \* ProcessManager.next_id
    os,           \* OS process table: pid -> "free" | "alive" | "zombie"
    nspawn,       \* number of children spawned so far
    limit,        \* number of children the OS lets the daemon create
    reuse,        \* whether the OS hands out the pid of a reaped child again
    log,          \* one stream of a LogWriter: its file, its rotated files
    conn,         \* the IPC connection being served
    store,        \* the daemon's run state and its StateStore on disk
    backoff,      \* a restart policy, a restart count and the delay computed
    mon,          \* the entries' ProcessStats: last samples, violation counts
    lock,         \* holder of the registry RwLock: a writer, a reader, or free
    cmd,          \* the command handler in flight
    sup           \* the supervisor loop

vars ==
    << processes, next_id, os, nspawn, limit, reuse, log, conn, store, backoff, mon,
       lock, cmd, sup >>

Registered == DOMAIN processes

(***************************************************************************)
(* Restart policy and tracker (src/process/restart.rs).                    *)
(***************************************************************************)
FromConfig(enabled, max_restarts, restart_delay_secs) ==
    [ enabled |-> enabled,
      max_restarts |-> max_restarts,
      time_window_secs |-> TimeWindowSecs,
      initial_delay_secs |-> restart_delay_secs,
      max_delay_secs |-> MaxDelaySecs ]

Policy(p) ==
    FromConfig(p.config.autorestart, p.config.max_restarts,
               p.config.restart_delay_secs)

\* RestartTracker::count_recent_restarts: tracker[i] is
\* now.duration_since(restart_times[i]) in seconds
CountRecentRestarts(tracker, window_secs) ==
    Cardinality({ i \in 1..Len(tracker) : tracker[i] < window_secs })

\* Variant of should_restart that lets one restart too many through.
ShouldRestartInclusive(policy, tracker) ==
    /\ policy.enabled
    /\ CountRecentRestarts(tracker, policy.time_window_secs)
          <= policy.max_restarts

\* Variant of should_restart that gives up one restart early.
ShouldRestartEarly(policy, tracker) ==
    /\ policy.enabled
    /\ CountRecentRestarts(tracker, policy.time_window_secs) + 1
          < policy.max_restarts

\* Variant of should_restart that does not look at the enabled flag.
ShouldRestartAlwaysEnabled(policy, tracker) ==
    CountRecentRestarts(tracker, policy.time_window_secs) < policy.max_restarts

\* RestartPolicy::should_restart
ShouldRestart(policy, tracker) ==
    /\ policy.enabled
    /\ CountRecentRestarts(tracker, policy.time_window_secs)
          < policy.max_restarts

\* restart_count as u32: the low bits of the count
AsU32(n) == n % Pow(2, CastBits)

\* BackoffStrategy::calculate_delay, Exponential
BackoffDelay(initial_delay_secs, restart_count, max_delay_secs) ==
    Min(SatMul(initial_delay_secs, SatPow(2, AsU32(restart_count))),
        max_delay_secs)

\* BackoffStrategy::calculate_delay, Fixed
FixedDelay(initial_delay_secs, restart_count) == initial_delay_secs

\* RestartPolicy::calculate_delay
CalculateDelay(policy, tracker) ==
    BackoffDelay(policy.initial_delay_secs, Len(tracker), policy.max_delay_secs)

(***************************************************************************)
(* Operating system: signals, liveness probe, process creation.            *)
(***************************************************************************)
\* The pids the OS may give to a new child: pids are handed out in
\* increasing order and none is handed out twice, unless the OS has wrapped
\* around (reuse), when any pid that has left the process table may come
\* back.
FreePids(osv) ==
    IF reuse THEN { q \in Pids : osv[q] = "free" /\ q <= limit /\ nspawn < limit }
             ELSE { q \in Pids : q = nspawn + 1 /\ q <= limit }

\* Variant of kill that fails on a child that has exited and is not yet
\* reaped.
SignalDeliveredToRunning(osv, pid) == osv[pid] = "alive"

\* signal::kill(pid, sig) succeeds iff a process with that pid exists
\* (running or not yet reaped).
SignalDelivered(osv, pid) == osv[pid] \in { "alive", "zombie" }

\* Effect of SIGKILL on the process table.
Kill9(osv, pid) == [ osv EXCEPT ![pid] = IF @ = "alive" THEN "zombie" ELSE @ ]

\* child.wait() is ready: the handle was already reaped or the child exited.
ChildExited(p, osv) == p.reaped \/ osv[p.pid] = "zombie"

\* Process table after child.wait() returned for entry p.
Reaped(p, osv) == IF p.reaped THEN osv ELSE [ osv EXCEPT ![p.pid] = "free" ]

\* system.process(pid).is_none(): certainly true once the pid has left the
\* process table; a zombie may or may not still be listed.
CertainlyGone(osv, pid) == osv[pid] = "free"
PossiblyGone(osv, pid) == osv[pid] \in { "free", "zombie" }

\* spawn_process succeeds only if the script exists (which the environment
\* decides at the moment of the call) and the OS has a pid to give.
CanFork(osv, scriptExists) == scriptExists /\ FreePids(osv) # {}

(***************************************************************************)
(* ManagedProcess and ProcessStats.                                        *)
(***************************************************************************)
\* ManagedProcess::new followed by mark_running, as in ProcessManager::spawn
NewManaged(cfg, pid) ==
    [ name |-> cfg.name,
      config |-> cfg,
      state |-> "Running",
      pid |-> pid,
      reaped |-> FALSE,
      restarts |-> 0,
      tracker |-> <<>> ]

\* Variant of the restart bookkeeping that leaves the tracker alone.
RecordRestartNoTimestamp(p, new_pid) ==
    [ p EXCEPT !.pid = new_pid,
               !.reaped = FALSE,
               !.restarts = @ + 1,
               !.state = "Running" ]

\* Variant of the restart bookkeeping that does not set the state back to
\* Running.
RecordRestartKeepState(p, new_pid) ==
    [ p EXCEPT !.pid = new_pid,
               !.reaped = FALSE,
               !.restarts = @ + 1,
               !.tracker = Append(@, 0) ]

\* process.child = spawned.child; stats.record_restart(new_pid);
\* restart_tracker.record_restart(); state = Running
RecordRestart(p, new_pid) ==
    [ p EXCEPT !.pid = new_pid,
               !.reaped = FALSE,
               !.restarts = @ + 1,
               !.tracker = Append(@, 0),
               !.state = "Running" ]

\* Variant of validate that does not look at the stop signal.
ValidateAnySignal(cfg) ==
    /\ cfg.name # <<>>
    /\ cfg.max_restarts # 0

\* ProcessConfig::validate on the modelled fields
Validate(cfg) ==
    /\ cfg.name # <<>>
    /\ cfg.max_restarts # 0
    /\ cfg.stop_signal \in ValidSignals

\* Variant of the duplicate check in spawn that only looks at the entries
\* that are running.
NameTakenRunning(procs, name) ==
    \E i \in DOMAIN procs : procs[i].name = name /\ procs[i].state = "Running"

\* The duplicate check of ProcessManager::spawn
NameTaken(procs, name) == \E i \in DOMAIN procs : procs[i].name = name

\* ProcessManager::find_all_by_name
FindAllByName(procs, name) ==
    { i \in DOMAIN procs :
        procs[i].name = name \/ StartsWithDash(procs[i].name, name) }

\* The signal ProcessManager::stop sends first when force is false.
GracefulSignal(cfg) == "SIGTERM"

\* Variant of the timed wait that runs one second too long.
StopTimeoutLate(cfg) == cfg.stop_timeout_secs + 1

\* Duration of the timed wait in ProcessManager::stop.
StopTimeout(cfg) == cfg.stop_timeout_secs

(***************************************************************************)
(* Bookkeeping of the handler, the supervisor and the last outcome.        *)
(***************************************************************************)
IdleCmd ==
    [ pc |-> "idle", op |-> "none", id |-> NoId, force |-> FALSE,
      queue |-> <<>>, count |-> 0, elapsed |-> 0, remaining |-> 0,
      sigs |-> <<>>, ok |-> TRUE, err |-> "none", pre |-> << >>,
      config |-> << >>, script_exists |-> TRUE,
      failed |-> 0, env |-> << >> ]

IdleSup ==
    [ pc |-> "idle", crashed |-> <<>>, remaining |-> 0, restarting |-> {},
      errors |-> 0 ]

\* No request has been read from the connection.
IdleConn == [ pc |-> "idle", request |-> <<>>, request_id |-> 0,
              handler_ok |-> TRUE, handler_id |-> 0, response |-> <<>> ]

\* The entries ids as they are when a handler begins.
Snapshot(ids) == [ i \in ids |-> processes[i] ]

\* The handler has returned: what it was called with (op, id, force), what
\* it returns (ok, err, n), the signals its last stop sent, the entries it
\* was aimed at as they were when it began, and those it has not come to.
\* A Spawn also keeps the configuration it was given and what
\* config.script.exists() answered.
Outcome(op, id, force, ok, err, sigs, n, pre) ==
    [ pc |-> "done", op |-> op, id |-> id, force |-> force, queue |-> cmd.queue,
      count |-> n, elapsed |-> cmd.elapsed, remaining |-> 0, sigs |-> sigs,
      ok |-> ok, err |-> err, pre |-> pre,
      config |-> << >>, script_exists |-> TRUE,
      failed |-> 0, env |-> << >> ]

\* A file that does not exist.
AbsentFile == [ exists |-> FALSE, data |-> <<>> ]

\* DaemonState::new on the modelled fields
NewDaemonState == [ version |-> "1.0.0", processes |-> <<>> ]

\* The daemon is serving commands and has no state file on disk.
UpStore ==
    [ pc |-> "up", file |-> AbsentFile, tmp |-> AbsentFile,
      state |-> NewDaemonState, written |-> 0, queue |-> <<>>,
      err |-> "none", by |-> "none", old |-> AbsentFile, base |-> << >>,
      clean |-> FALSE, pure |-> FALSE, restored |-> << >> ]

\* No log stream is open.
IdleLog ==
    [ max_size |-> 0, size |-> 0, exists |-> FALSE, file |-> << >>,
      rotated |-> << >>, now |-> 0, written |-> {}, ok |-> TRUE ]

\* No delay is being computed.
IdleBackoff ==
    [ initial |-> 0, max |-> 0, count |-> 0, delay |-> 0, fixed |-> 0 ]

\* ProcessStats::new on the sampled fields and the violation counters
NewStats ==
    [ memory_usage |-> 0, cpu_usage |-> 0,
      memory_violations |-> 0, cpu_violations |-> 0 ]

\* The process table of sysinfo holds no row for a pid.
NotListed == [ listed |-> FALSE, mem |-> 0, cpu |-> 0 ]

\* No entry has been sampled, and the process table of the monitor has not
\* been refreshed.
IdleMon ==
    [ stats |-> [ i \in 1..MaxId |-> NewStats ],
      system |-> [ q \in Pids |-> NotListed ] ]

Init ==
    /\ processes = << >>
    /\ next_id = FirstId
    /\ os = [ q \in Pids |-> "free" ]
    /\ nspawn = 0
    /\ limit = MaxSpawns
    /\ reuse = FALSE
    /\ log = IdleLog
    /\ conn = IdleConn
    /\ store = UpStore
    /\ backoff = IdleBackoff
    /\ mon = IdleMon
    /\ lock = "free"
    /\ cmd = IdleCmd
    /\ sup = IdleSup


Perms(S) ==
    { f \in [ 1..Cardinality(S) -> S ] :
        \A i, j \in 1..Cardinality(S) : f[i] = f[j] => i = j }

\* Variant of the liveness probe with the answer inverted.
ProbeAliveInverted(osv, pid) ==
    { b \in BOOLEAN : IF b THEN PossiblyGone(osv, pid)
                           ELSE ~CertainlyGone(osv, pid) }

\* Possible answers of the liveness probe (ProcessMonitor::is_process_alive)
ProbeAlive(osv, pid) ==
    { b \in BOOLEAN : IF b THEN ~CertainlyGone(osv, pid)
                           ELSE PossiblyGone(osv, pid) }

(***************************************************************************)
(* Environment: children exit on their own, dropped children are reaped by *)
(* the runtime, time passes.                                               *)
(***************************************************************************)
Owned(q) == \E i \in Registered : processes[i].pid = q /\ ~processes[i].reaped

ChildExit(q) ==
    /\ cmd.pc # "done"
    /\ os[q] = "alive"
    /\ os' = [ os EXCEPT ![q] = "zombie" ]
    /\ UNCHANGED << processes, next_id, nspawn, limit, reuse, log, backoff, mon, conn, store, lock, cmd, sup >>

OrphanReap(q) ==
    /\ cmd.pc # "done"
    /\ os[q] = "zombie"
    /\ ~Owned(q)
    /\ os' = [ os EXCEPT ![q] = "free" ]
    /\ UNCHANGED << processes, next_id, nspawn, limit, reuse, log, backoff, mon, conn, store, lock, cmd, sup >>

\* A task is suspended on a timer that has not fired yet.
StopWaitBlocked ==
    /\ cmd.pc = "stop_wait"
    /\ ~ChildExited(processes[cmd.id], os)

CmdTimer == StopWaitBlocked \/ cmd.pc = "roll_sleep"

SupTimer == sup.pc \in { "sleep", "health_sleep" }

\* Every restart timestamp grows older by d seconds.  An age is not counted
\* beyond the restart window: count_recent_restarts only asks whether it is
\* below the window.
Older(procs, d) ==
    [ i \in DOMAIN procs |->
        [ procs[i] EXCEPT !.tracker =
            [ k \in 1..Len(@) |-> Min(@[k] + d, TimeWindowSecs) ] ] ]

\* Time passes up to the pending timer, or by a whole window when no task
\* is waiting on a timer.
AdvanceTime ==
    IF CmdTimer
      THEN /\ cmd.remaining > 0
           /\ processes' = Older(processes, cmd.remaining)
           /\ cmd' = [ cmd EXCEPT !.remaining = 0,
                                  !.elapsed = @ + cmd.remaining ]
           /\ UNCHANGED << next_id, os, nspawn, limit, reuse, log, backoff, mon, conn, store, lock, sup >>
    ELSE IF SupTimer
      THEN /\ sup.remaining > 0
           /\ processes' = Older(processes, sup.remaining)
           /\ sup' = [ sup EXCEPT !.remaining = 0 ]
           /\ UNCHANGED << next_id, os, nspawn, limit, reuse, log, backoff, mon, conn, store, lock, cmd >>
      ELSE /\ lock = "free"
           /\ processes' = Older(processes, TimeWindowSecs)
           /\ processes' # processes
           /\ UNCHANGED << next_id, os, nspawn, limit, reuse, log, backoff, mon, conn, store, lock, cmd, sup >>

(***************************************************************************)
(* ProcessManager operations (src/process/manager.rs), run by the command  *)
(* handler of the daemon under the write lock.                             *)
(***************************************************************************)
\* Variant of a handler's return that has let go of the write lock.
CompleteUnlocked(procs2, os2, ns2, out) ==
    /\ processes' = procs2
    /\ os' = os2
    /\ nspawn' = ns2
    /\ UNCHANGED << limit, reuse, log, backoff, mon, conn, store >>
    /\ cmd' = out
    /\ lock' = "free"
    /\ UNCHANGED << next_id, sup >>

\* A handler that holds the write lock comes to its return.
Complete(procs2, os2, ns2, out) ==
    /\ processes' = procs2
    /\ os' = os2
    /\ nspawn' = ns2
    /\ UNCHANGED << limit, reuse, log, backoff, mon, conn, store >>
    /\ cmd' = out
    /\ lock' = "client"
    /\ UNCHANGED << next_id, sup >>

\* Variant of the id allocation that hands out the lowest id not in use.
AllocLowestFree(procs, nid) ==
    CHOOSE i \in FirstId..nid :
        /\ i \notin DOMAIN procs
        /\ \A j \in FirstId..(i - 1) : j \in DOMAIN procs

\* ProcessId::new(self.next_id): the id given to a new entry.
AllocId(procs, nid) == nid

\* ProcessManager::spawn has returned.
SpawnOutcome(cfg, scriptExists, id, ok, err) ==
    [ Outcome("spawn", id, FALSE, ok, err, <<>>, 0, << >>)
        EXCEPT !.config = cfg, !.script_exists = scriptExists ]

\* ProcessManager::spawn
ClientSpawn(cfg) ==
    /\ lock = "free" /\ cmd.pc = "idle"
    /\ IF NameTaken(processes, cfg.name)
         THEN Complete(processes, os, nspawn,
                    SpawnOutcome(cfg, TRUE, NoId, FALSE, "AlreadyExists"))
       ELSE IF ~Validate(cfg)
         THEN Complete(processes, os, nspawn,
                    SpawnOutcome(cfg, TRUE, NoId, FALSE, "ConfigInvalid"))
       ELSE \E scriptExists \in BOOLEAN :
         IF ~CanFork(os, scriptExists)
         THEN Complete(processes, os, nspawn,
                    SpawnOutcome(cfg, scriptExists, NoId, FALSE, "SpawnError"))
         ELSE
            /\ next_id <= MaxId
            /\ nspawn < limit
            /\ \E q \in FreePids(os) :
                 /\ processes' = processes @@
                        (AllocId(processes, next_id) :> NewManaged(cfg, q))
                 /\ os' = [ os EXCEPT ![q] = "alive" ]
            /\ next_id' = next_id + 1
            /\ nspawn' = nspawn + 1
            /\ UNCHANGED << limit, reuse, log, backoff, mon, conn, store >>
            /\ cmd' = SpawnOutcome(cfg, TRUE, AllocId(processes, next_id),
                                   TRUE, "none")
            /\ lock' = "client"
            /\ UNCHANGED sup

\* ProcessManager::stop with force = true: mark_stopping, SIGKILL, wait,
\* mark_stopped.
ForceStop(procs, osv, id) ==
    LET p == procs[id] IN
    IF ~SignalDelivered(osv, p.pid)
      THEN [ ok |-> FALSE,
             procs |-> [ procs EXCEPT ![id].state = "Stopping" ],
             os |-> osv ]
      ELSE [ ok |-> TRUE,
             procs |-> [ procs EXCEPT ![id].state = "Stopped",
                                      ![id].reaped = TRUE ],
             os |-> Reaped(p, Kill9(osv, p.pid)) ]

\* ProcessManager::stop with force = false up to the timed wait:
\* mark_stopping, deliver the stop signal, start waiting.  op, queue, count
\* and pre are those of the handler that calls stop.
GracefulBegin(op, id, queue, count, pre) ==
    LET p == processes[id]
        procs1 == [ processes EXCEPT ![id].state = "Stopping" ]
    IN  IF ~SignalDelivered(os, p.pid)
          THEN Complete(procs1, os, nspawn,
                   [ Outcome(op, id, FALSE, FALSE, "StopError", <<>>, count, pre)
                       EXCEPT !.queue = queue ])
          ELSE /\ processes' = procs1
               /\ cmd' = [ pc |-> "stop_wait", op |-> op, id |-> id,
                           force |-> FALSE, queue |-> queue, count |-> count,
                           elapsed |-> 0,
                           remaining |-> StopTimeout(p.config),
                           sigs |-> << GracefulSignal(p.config) >>,
                           ok |-> TRUE, err |-> "none", pre |-> pre,
                           config |-> << >>, script_exists |-> TRUE,
                           failed |-> 0, env |-> << >> ]
               /\ lock' = "client"
               /\ UNCHANGED << next_id, os, nspawn, limit, reuse, log, backoff, mon, conn, store, sup >>

ClientStop(id, force) ==
    /\ lock = "free" /\ cmd.pc = "idle"
    /\ IF id \notin Registered
         THEN Complete(processes, os, nspawn,
                  Outcome("stop", id, force, FALSE, "NotFound", <<>>, 0, << >>))
       ELSE IF force
         THEN LET r == ForceStop(processes, os, id) IN
              Complete(r.procs, r.os, nspawn,
                  Outcome("stop", id, TRUE, r.ok,
                          IF r.ok THEN "none" ELSE "StopError",
                          IF r.ok THEN << "SIGKILL" >> ELSE <<>>, 0,
                          Snapshot({ id })))
       ELSE GracefulBegin("stop", id, <<>>, 0, Snapshot({ id }))

\* ProcessManager::restart
ClientRestart(id) ==
    /\ lock = "free" /\ cmd.pc = "idle"
    /\ IF id \notin Registered
         THEN Complete(processes, os, nspawn,
                  Outcome("restart", id, FALSE, FALSE, "NotFound", <<>>, 0, << >>))
         ELSE GracefulBegin("restart", id, <<>>, 0, Snapshot({ id }))

\* ProcessManager::rolling_restart: enumerate the replicas and begin with
\* the first one.
ClientRollingRestart(name) ==
    /\ lock = "free" /\ cmd.pc = "idle"
    /\ LET replicas == FindAllByName(processes, name) IN
       IF replicas = {}
         THEN Complete(processes, os, nspawn,
                  Outcome("rolling", NoId, FALSE, FALSE, "NotFound", <<>>, 0, << >>))
         ELSE \E order \in Perms(replicas) :
                GracefulBegin("rolling", order[1],
                              [ k \in 1..(Cardinality(replicas) - 1) |-> order[k + 1] ],
                              0, Snapshot(replicas))


\* Variant of the rest of stop that already counts a restart.
AfterWaitCountingRestart(procs, osv, id, timedOut) ==
    LET p == procs[id] IN
    [ procs |-> [ procs EXCEPT ![id].state = "Stopped", ![id].reaped = TRUE,
                               ![id].restarts = @ + 1,
                               ![id].tracker = Append(@, 0) ],
      os |-> Reaped(p, IF timedOut THEN Kill9(osv, p.pid) ELSE osv) ]

\* The rest of ProcessManager::stop once the timed wait has returned:
\* SIGKILL on timeout, wait for the exit, mark_stopped.
AfterWait(procs, osv, id, timedOut) ==
    LET p == procs[id] IN
    [ procs |-> [ procs EXCEPT ![id].state = "Stopped", ![id].reaped = TRUE ],
      os |-> Reaped(p, IF timedOut THEN Kill9(osv, p.pid) ELSE osv) ]

\* The handler resumes from the timed wait of stop: the stop completes and
\* the operation that called it continues (restart: spawn_process and the
\* update of the entry; rolling restart: the same, then the health-check
\* sleep unless the replica was the last one, then the liveness check).
StopWaitFinish ==
    /\ cmd.pc = "stop_wait"
    /\ LET p == processes[cmd.id]
           exited == ChildExited(p, os)
           timedOut == ~exited /\ cmd.remaining = 0
           w == AfterWait(processes, os, cmd.id, timedOut)
           sigs == IF timedOut THEN Append(cmd.sigs, "SIGKILL") ELSE cmd.sigs
       IN
       /\ exited \/ timedOut
       /\ IF cmd.op = "stop"
            THEN Complete(w.procs, w.os, nspawn,
                     Outcome("stop", cmd.id, FALSE, TRUE, "none", sigs, 0, cmd.pre))
          ELSE \E scriptExists \in BOOLEAN :
            IF ~CanFork(w.os, scriptExists)
            THEN Complete(w.procs, w.os, nspawn,
                     Outcome(cmd.op, cmd.id, FALSE, FALSE, "SpawnError", sigs,
                             cmd.count, cmd.pre))
            ELSE
               /\ nspawn < limit
               /\ \E q \in FreePids(w.os) :
                    LET procs3 == [ w.procs EXCEPT
                                      ![cmd.id] = RecordRestart(@, q) ]
                        os3 == [ w.os EXCEPT ![q] = "alive" ]
                    IN  IF cmd.op = "restart"
                          THEN Complete(procs3, os3, nspawn + 1,
                                   Outcome("restart", cmd.id, FALSE, TRUE, "none",
                                           sigs, 0, cmd.pre))
                        ELSE IF cmd.queue = <<>>
                          THEN \E alive \in ProbeAlive(os3, q) :
                                 Complete(procs3, os3, nspawn + 1,
                                     IF alive
                                       THEN Outcome("rolling", cmd.id, FALSE, TRUE,
                                                "none", sigs, cmd.count + 1, cmd.pre)
                                       ELSE Outcome("rolling", cmd.id, FALSE, FALSE,
                                                "RestartError", sigs, cmd.count,
                                                cmd.pre))
                          ELSE /\ processes' = procs3
                               /\ os' = os3
                               /\ nspawn' = nspawn + 1
                               /\ UNCHANGED << limit, reuse, log, backoff, mon, conn, store >>
                               /\ cmd' = [ cmd EXCEPT !.pc = "roll_sleep",
                                             !.sigs = sigs,
                                             !.remaining = HealthCheckDelaySecs ]
                               /\ UNCHANGED << next_id, lock, sup >>

\* rolling_restart after the health-check delay: verify the liveness of the
\* replica just restarted, then go on with the next replica.
RollWake ==
    /\ cmd.pc = "roll_sleep"
    /\ cmd.remaining = 0
    /\ \E alive \in ProbeAlive(os, processes[cmd.id].pid) :
         IF ~alive
           THEN Complete(processes, os, nspawn,
                    Outcome("rolling", cmd.id, FALSE, FALSE, "RestartError",
                            cmd.sigs, cmd.count, cmd.pre))
           ELSE GracefulBegin("rolling", Head(cmd.queue), Tail(cmd.queue),
                              cmd.count + 1, cmd.pre)

\* ProcessManager::remove
Remove(procs, id) == [ i \in (DOMAIN procs) \ { id } |-> procs[i] ]

\* The loop of the Delete handler over the entries to delete.
RECURSIVE DeleteAll(_, _, _, _)
DeleteAll(procs, osv, order, deleted) ==
    IF order = <<>>
      THEN [ procs |-> procs, os |-> osv, deleted |-> deleted ]
      ELSE LET id == Head(order)
               r == IF procs[id].state # "Stopped"
                      THEN ForceStop(procs, osv, id)
                      ELSE [ ok |-> TRUE, procs |-> procs, os |-> osv ]
           IN  IF r.ok
                 THEN DeleteAll(Remove(r.procs, id), r.os, Tail(order), deleted + 1)
                 ELSE DeleteAll(r.procs, r.os, Tail(order), deleted)

DeleteTargets(byId, id, name) ==
    IF byId THEN (IF id \in Registered THEN { id } ELSE {})
            ELSE FindAllByName(processes, name)

\* The handler's response is written and the write lock is dropped.
Respond ==
    /\ cmd.pc = "done"
    /\ cmd' = IdleCmd
    /\ lock' = "free"
    /\ UNCHANGED << processes, next_id, os, nspawn, limit, reuse, log, backoff, mon, conn, store, sup >>

\* Command::Delete
ClientDelete(byId, id, name) ==
    /\ lock = "free" /\ cmd.pc = "idle"
    /\ LET targets == DeleteTargets(byId, id, name) IN
       IF targets = {}
         THEN Complete(processes, os, nspawn,
                  Outcome("delete", id, TRUE, FALSE, "NotFound", <<>>, 0, << >>))
         ELSE \E order \in Perms(targets) :
                LET r == DeleteAll(processes, os, order, 0) IN
                Complete(r.procs, r.os, nspawn,
                    Outcome("delete", order[1], TRUE, r.deleted > 0,
                            IF r.deleted > 0 THEN "none" ELSE "Other", <<>>,
                            r.deleted, Snapshot(targets)))

\* Command::List: the handler takes the read half of the lock and reports
\* every entry.
ClientList ==
    /\ lock = "free" /\ cmd.pc = "idle"
    /\ cmd' = Outcome("list", NoId, FALSE, TRUE, "none", <<>>,
                      Cardinality(Registered), Snapshot(Registered))
    /\ lock' = "read"
    /\ UNCHANGED << processes, next_id, os, nspawn, limit, reuse, log, backoff, mon, conn, store, sup >>

\* Command::Logs: the handler takes the read half of the lock and looks the
\* entry up.
ClientLogs(id) ==
    /\ lock = "free" /\ cmd.pc = "idle"
    /\ cmd' = IF id \in Registered
                THEN Outcome("logs", id, FALSE, TRUE, "none", <<>>, 0,
                             Snapshot({ id }))
                ELSE Outcome("logs", id, FALSE, FALSE, "NotFound", <<>>, 0, << >>)
    /\ lock' = "read"
    /\ UNCHANGED << processes, next_id, os, nspawn, limit, reuse, log, backoff, mon, conn, store, sup >>

(***************************************************************************)
(* Supervisor loop (src/bin/adasa-daemon.rs, Daemon::supervisor_loop).     *)
(***************************************************************************)
\* Variant of the marking in detect_crashes that leaves the entries Stopped.
MarkStopped(procs, dead) ==
    [ i \in DOMAIN procs |->
        IF i \in dead THEN [ procs[i] EXCEPT !.state = "Stopped" ] ELSE procs[i] ]

\* ProcessMonitor::detect_crashes marks the Running entries in dead;
\* ProcessManager::detect_crashes maps each crashed pid back to an id.
MarkErrored(procs, dead) ==
    [ i \in DOMAIN procs |->
        IF i \in dead THEN [ procs[i] EXCEPT !.state = "Errored" ] ELSE procs[i] ]

SupDetect ==
    /\ sup.pc = "idle"
    /\ lock = "free"
    /\ LET running == { i \in Registered : processes[i].state = "Running" } IN
       \E dead \in SUBSET { i \in running : PossiblyGone(os, processes[i].pid) } :
         /\ { i \in running : CertainlyGone(os, processes[i].pid) } \subseteq dead
         /\ dead # {}
         /\ processes' = MarkErrored(processes, dead)
         /\ \E order \in Perms(dead) :
              \E pick \in [ dead -> Registered ] :
                /\ \A i \in dead : processes[pick[i]].pid = processes[i].pid
                /\ sup' = [ sup EXCEPT
                            !.pc = "pending",
                            !.crashed = [ k \in 1..Cardinality(dead) |-> pick[order[k]] ],
                            !.remaining = 0 ]
    /\ UNCHANGED << next_id, os, nspawn, limit, reuse, log, backoff, mon, conn, store, lock, cmd >>

\* The supervisor moves on to the next crashed id, releasing the lock after
\* the last one.
SupAdvance(procs2, os2, ns2) ==
    /\ processes' = procs2
    /\ os' = os2
    /\ nspawn' = ns2
    /\ UNCHANGED << limit, reuse, log, backoff, mon, conn, store >>
    /\ IF Len(sup.crashed) = 1
         THEN sup' = IdleSup /\ lock' = "free"
         ELSE sup' = [ sup EXCEPT !.pc = "pending",
                                  !.crashed = Tail(sup.crashed),
                                  !.remaining = 0 ]
              /\ lock' = "sup"
    /\ UNCHANGED << next_id, cmd >>

\* ProcessManager::try_auto_restart up to the backoff sleep
SupTryRestart ==
    /\ sup.pc = "pending"
    /\ lock \in { "free", "sup" }
    /\ LET id == Head(sup.crashed) IN
       IF id \notin Registered
         THEN SupAdvance(processes, os, nspawn)
       ELSE IF ~ShouldRestart(Policy(processes[id]), processes[id].tracker)
         THEN SupAdvance(processes, os, nspawn)
       ELSE /\ sup' = [ sup EXCEPT !.pc = "sleep",
                          !.remaining = CalculateDelay(Policy(processes[id]),
                                                       processes[id].tracker) ]
            /\ lock' = "sup"
            /\ UNCHANGED << processes, next_id, os, nspawn, limit, reuse, log, backoff, mon, conn, store, cmd >>

\* ProcessManager::try_auto_restart after the backoff sleep: spawn_process
\* and the update of the entry
SupRespawn ==
    /\ sup.pc = "sleep"
    /\ sup.remaining = 0
    /\ LET id == Head(sup.crashed) IN
       \E scriptExists \in BOOLEAN :
         IF ~CanFork(os, scriptExists)
         THEN SupAdvance(processes, os, nspawn)
         ELSE /\ nspawn < limit
              /\ \E q \in FreePids(os) :
                   SupAdvance([ processes EXCEPT ![id] = RecordRestart(@, q) ],
                              [ os EXCEPT ![q] = "alive" ], nspawn + 1)

Next ==
    \/ \E q \in Pids : ChildExit(q)
    \/ \E q \in Pids : OrphanReap(q)
    \/ AdvanceTime
    \/ \E cfg \in Configs : ClientSpawn(cfg)
    \/ \E id \in 1..MaxId, force \in BOOLEAN : ClientStop(id, force)
    \/ \E id \in 1..MaxId : ClientRestart(id)
    \/ \E name \in TargetInputs : ClientRollingRestart(name)
    \/ \E id \in 1..MaxId : ClientDelete(TRUE, id, <<>>)
    \/ \E name \in TargetInputs : ClientDelete(FALSE, NoId, name)
    \/ ClientList
    \/ \E id \in 1..MaxId : ClientLogs(id)
    \/ StopWaitFinish
    \/ RollWake
    \/ Respond
    \/ SupDetect
    \/ SupTryRestart
    \/ SupRespawn

Spec == Init /\ [][Next]_vars

(***************************************************************************)
(* The daemon serving Start, Stop and rolling Restart commands next to the *)
(* supervisor, with room for one more child.                               *)
(***************************************************************************)
RollingInit ==
    /\ processes = << >>
    /\ next_id = FirstId
    /\ os = [ q \in Pids |-> "free" ]
    /\ nspawn = 0
    /\ limit = MaxSpawnsRolling
    /\ reuse = FALSE
    /\ log = IdleLog
    /\ conn = IdleConn
    /\ store = UpStore
    /\ backoff = IdleBackoff
    /\ mon = IdleMon
    /\ lock = "free"
    /\ cmd = IdleCmd
    /\ sup = IdleSup

RollingNext ==
    \/ \E q \in Pids : ChildExit(q)
    \/ AdvanceTime
    \/ \E cfg \in Configs : ClientSpawn(cfg)
    \/ \E id \in 1..MaxId, force \in BOOLEAN : ClientStop(id, force)
    \/ \E name \in TargetInputs : ClientRollingRestart(name)
    \/ StopWaitFinish
    \/ RollWake
    \/ Respond
    \/ SupDetect
    \/ SupTryRestart
    \/ SupRespawn

RollingSpec == RollingInit /\ [][RollingNext]_vars

(***************************************************************************)
(* The daemon with its tasks scheduled fairly and with every spawn_process *)
(* call succeeding while the OS still has a child to give.  The registry   *)
(* lock is a tokio RwLock, which serves its waiters in the order they      *)
(* arrive, so a task that asks for it again and again gets it.             *)
(***************************************************************************)
\* spawn_process returns an error in this step.
SpawnFails ==
    \/ cmd.pc # "done" /\ cmd'.pc = "done" /\ cmd'.err = "SpawnError"
    \/ sup.pc = "sleep" /\ sup'.pc # "sleep" /\ nspawn' = nspawn

FairNext == Next /\ (nspawn < limit => ~SpawnFails)

Fairness ==
    /\ SF_vars(SupDetect)
    /\ SF_vars(SupTryRestart)
    /\ WF_vars(SupRespawn /\ ~SpawnFails)
    /\ WF_vars(AdvanceTime)
    /\ WF_vars(StopWaitFinish /\ ~SpawnFails)
    /\ WF_vars(RollWake)
    /\ WF_vars(Respond)

FairSpec == Init /\ [][FairNext]_vars /\ Fairness

(***************************************************************************)
(* The daemon on a system whose pid counter has wrapped around: the pid of *)
(* a child that has been reaped may be given to a later child.             *)
(***************************************************************************)
ReuseInit ==
    /\ processes = << >>
    /\ next_id = FirstId
    /\ os = [ q \in Pids |-> "free" ]
    /\ nspawn = 0
    /\ limit = MaxSpawns
    /\ reuse = TRUE
    /\ log = IdleLog
    /\ conn = IdleConn
    /\ store = UpStore
    /\ backoff = IdleBackoff
    /\ mon = IdleMon
    /\ lock = "free"
    /\ cmd = IdleCmd
    /\ sup = IdleSup

ReuseSpec == ReuseInit /\ [][Next]_vars

(***************************************************************************)
(* The daemon serving Start and Restart commands next to the supervisor,   *)
(* with room for one more child.                                           *)
(***************************************************************************)
RestartNext ==
    \/ \E q \in Pids : ChildExit(q)
    \/ AdvanceTime
    \/ \E cfg \in Configs : ClientSpawn(cfg)
    \/ \E id \in 1..MaxId : ClientRestart(id)
    \/ StopWaitFinish
    \/ Respond
    \/ SupDetect
    \/ SupTryRestart
    \/ SupRespawn

RestartSpec == RollingInit /\ [][RestartNext]_vars

(***************************************************************************)
(* The daemon's registry used together with the single-entry refresh of    *)
(* the monitor, ProcessMonitor::update_process_stats, which the library    *)
(* exports next to ProcessManager::get_mut.                                *)
(***************************************************************************)
\* ProcessMonitor::update_process_stats on entry i.  When the rate limit
\* skips the refresh, the lookup reads the table of an earlier refresh,
\* which may or may not hold the pid.
UpdateProcessStats(i) ==
    /\ lock = "free" /\ cmd.pc = "idle"
    /\ i \in Registered
    /\ \E refreshed \in BOOLEAN :
         \E found \in (IF refreshed THEN ProbeAlive(os, processes[i].pid)
                                    ELSE BOOLEAN) :
           /\ ~found
           /\ processes' = MarkErrored(processes, { i })
    /\ processes' # processes
    /\ UNCHANGED << next_id, os, nspawn, limit, reuse, log, backoff, mon, conn, store, lock, cmd, sup >>

MonitorNext ==
    \/ Next
    \/ \E i \in 1..MaxId : UpdateProcessStats(i)

MonitorSpec == Init /\ [][MonitorNext]_vars

(***************************************************************************)
(* IPC server (src/ipc/server.rs): one connection carries one request line *)
(* and one response line.  The id travels as a JSON number, modelled as    *)
(* its sequence of decimal digits.                                         *)
(***************************************************************************)
\* The digits that occur in the ids of the requests received: enough to
\* write ids below, at and above the largest unsigned integer, and ids with
\* a leading zero.
RequestDigits == { 0, 1, 4, 9 }

RequestLines == UNION { [ 1..n -> RequestDigits ] : n \in 0..MaxRequestDigits }

RECURSIVE FromDigits(_)
FromDigits(d) ==
    IF d = <<>> THEN 0
    ELSE FromDigits(SubSeq(d, 1, Len(d) - 1)) * 10 + d[Len(d)]

ParseError == -1

\* serde_json::from_str on the id: a JSON number has no leading zero and
\* must fit the unsigned integer.
ParseId(d) ==
    IF \/ d = <<>>
       \/ Len(d) > 1 /\ d[1] = 0
       \/ FromDigits(d) > UMax
      THEN ParseError
      ELSE FromDigits(d)

\* serde_json::to_vec on the id
RECURSIVE SerializeId(_)
SerializeId(n) ==
    IF n < 10 THEN << n >> ELSE Append(SerializeId(n \div 10), n % 10)

\* The ids a command handler puts into the Response it returns.
HandlerIds == { 0, 1 }

\* Variant of the response that keeps the id the handler has chosen.
ResponseIdOfHandler(request_id, handler_ok, handler_id) ==
    IF handler_ok THEN handler_id ELSE request_id

\* The id of the response the server writes: Response { id: request.id, .. }
\* after a handler's Ok, Response::error(request.id, ..) after its Err.
ResponseId(request_id, handler_ok, handler_id) ==
    IF handler_ok THEN request_id ELSE request_id

\* The server reads the request line and parses it; a line that does not
\* parse ends the connection without a response.
IpcReceive(line) ==
    /\ conn.pc = "idle"
    /\ conn' = IF ParseId(line) = ParseError
                 THEN [ IdleConn EXCEPT !.pc = "failed", !.request = line ]
                 ELSE [ IdleConn EXCEPT !.pc = "received", !.request = line,
                                        !.request_id = ParseId(line) ]
    /\ UNCHANGED << processes, next_id, os, nspawn, limit, reuse, log, backoff, mon, store, lock, cmd, sup >>

\* handler(request.command).await returns Ok(Response) or Err.
IpcHandle(ok, id) ==
    /\ conn.pc = "received"
    /\ conn' = [ conn EXCEPT !.pc = "handled", !.handler_ok = ok,
                             !.handler_id = IF ok THEN id ELSE 0 ]
    /\ UNCHANGED << processes, next_id, os, nspawn, limit, reuse, log, backoff, mon, store, lock, cmd, sup >>

\* The server builds the response, serializes it and writes the line.
IpcWrite ==
    /\ conn.pc = "handled"
    /\ conn' = [ conn EXCEPT
                   !.pc = "written",
                   !.response = SerializeId(ResponseId(conn.request_id,
                                                       conn.handler_ok,
                                                       conn.handler_id)) ]
    /\ UNCHANGED << processes, next_id, os, nspawn, limit, reuse, log, backoff, mon, store, lock, cmd, sup >>

\* The connection task ends.
IpcClose ==
    /\ conn.pc \in { "written", "failed" }
    /\ conn' = IdleConn
    /\ UNCHANGED << processes, next_id, os, nspawn, limit, reuse, log, backoff, mon, store, lock, cmd, sup >>

IpcNext ==
    \/ \E line \in RequestLines : IpcReceive(line)
    \/ \E ok \in BOOLEAN, id \in HandlerIds : IpcHandle(ok, id)
    \/ IpcWrite
    \/ IpcClose

IpcSpec == Init /\ [][IpcNext]_vars

(***************************************************************************)
(* Persistence (src/state/mod.rs) and the life of the daemon process       *)
(* (src/bin/adasa-daemon.rs): start and restore from the snapshot file,    *)
(* serve commands, shut down and save.  A file is the sequence of chunks   *)
(* written to it; a snapshot is written as its version, one chunk for each *)
(* entry and a closing chunk.                                              *)
(***************************************************************************)
StateVersion == "1.0.0"

\* The versions found in snapshot files: the current one and an older one.
Versions == { StateVersion, "0.9.0" }

\* serde_json::to_writer_pretty on a DaemonState
Serialize(state) ==
    << [ kind |-> "version", val |-> [ version |-> state.version ] ] >>
      \o [ k \in 1..Len(state.processes) |->
             [ kind |-> "process", val |-> state.processes[k] ] ]
      \o << [ kind |-> "end", val |-> [ n |-> Len(state.processes) ] ] >>

\* serde_json::from_reader accepts the bytes: the document is complete.
Parses(data) ==
    /\ Len(data) >= 2
    /\ data[1].kind = "version"
    /\ data[Len(data)].kind = "end"
    /\ \A k \in 2..(Len(data) - 1) : data[k].kind = "process"

\* serde_json::from_reader: the DaemonState of a complete document.
Deserialize(data) ==
    [ version |-> data[1].val.version,
      processes |-> [ k \in 1..(Len(data) - 2) |-> data[k + 1].val ] ]

\* Variant of the validation that does not compare the names.
ValidateStateIdsOnly(state) ==
    /\ state.version = StateVersion
    /\ \A j, k \in 1..Len(state.processes) :
         j # k => state.processes[j].id # state.processes[k].id

\* DaemonState::validate
ValidateState(state) ==
    /\ state.version = StateVersion
    /\ \A j, k \in 1..Len(state.processes) :
         j # k => state.processes[j].id # state.processes[k].id
    /\ \A j, k \in 1..Len(state.processes) :
         j # k => state.processes[j].name # state.processes[k].name

\* StateStore::load
Load(file) ==
    IF ~file.exists
      THEN [ ok |-> TRUE, err |-> "none", state |-> NewDaemonState ]
    ELSE IF ~Parses(file.data)
      THEN [ ok |-> FALSE, err |-> "StateLoadError", state |-> NewDaemonState ]
    ELSE IF ~ValidateState(Deserialize(file.data))
      THEN [ ok |-> FALSE, err |-> "StateCorruption", state |-> NewDaemonState ]
      ELSE [ ok |-> TRUE, err |-> "none", state |-> Deserialize(file.data) ]

\* StateStore::save up to the creation of the temporary file: the state is
\* validated first.
SaveBegin(st, state, by) ==
    IF ~ValidateState(state)
      THEN [ st EXCEPT !.pc = "saved", !.err = "StateCorruption",
                       !.state = state, !.old = st.file, !.by = by,
                       !.clean = IF by = "daemon" THEN FALSE ELSE @ ]
      ELSE [ st EXCEPT !.pc = "save_create", !.err = "none",
                       !.state = state, !.old = st.file, !.by = by,
                       !.written = 0 ]

\* StateStore::save returns an error from one of its file operations.
SaveError(st) ==
    [ st EXCEPT !.pc = "saved", !.err = "StateSaveError",
                !.clean = IF st.by = "daemon" THEN FALSE ELSE @ ]

\* Variant of the write that goes to the state file itself.
WriteChunkInPlace(st) ==
    [ st EXCEPT !.file = [ exists |-> TRUE,
                           data |-> SubSeq(Serialize(st.state), 1, st.written + 1) ],
                !.tmp = [ exists |-> TRUE,
                          data |-> SubSeq(Serialize(st.state), 1, st.written + 1) ],
                !.written = @ + 1 ]

\* The BufWriter hands the next part of the document to the temporary file.
WriteChunk(st) ==
    [ st EXCEPT !.tmp = [ exists |-> TRUE, data |-> Append(@.data,
                              Serialize(st.state)[st.written + 1]) ],
                !.written = @ + 1 ]

\* File::create(&temp_path)
SaveCreate ==
    /\ store.pc = "save_create"
    /\ \E ok \in BOOLEAN :
         store' = IF ok THEN [ store EXCEPT !.pc = "save_write",
                                 !.tmp = [ exists |-> TRUE, data |-> <<>> ] ]
                        ELSE SaveError(store)
    /\ UNCHANGED << processes, next_id, os, nspawn, limit, reuse, log, backoff, mon, conn, lock, cmd, sup >>

\* to_writer_pretty and flush: the document reaches the temporary file part
\* by part.
SaveWrite ==
    /\ store.pc = "save_write"
    /\ \E ok \in BOOLEAN :
         store' = IF ~ok THEN SaveError(store)
                  ELSE [ WriteChunk(store) EXCEPT !.pc =
                           IF store.written + 1 = Len(Serialize(store.state))
                             THEN "save_rename" ELSE "save_write" ]
    /\ UNCHANGED << processes, next_id, os, nspawn, limit, reuse, log, backoff, mon, conn, lock, cmd, sup >>

\* fs::rename(&temp_path, &self.path)
SaveRename ==
    /\ store.pc = "save_rename"
    /\ \E ok \in BOOLEAN :
         store' = IF ~ok THEN SaveError(store)
                  ELSE [ store EXCEPT !.pc = "saved", !.err = "none",
                                      !.file = store.tmp, !.tmp = AbsentFile,
                                      !.clean = (store.by = "daemon") ]
    /\ UNCHANGED << processes, next_id, os, nspawn, limit, reuse, log, backoff, mon, conn, lock, cmd, sup >>

\* The entries a snapshot file found at startup may hold.
PersistedInputs ==
    { [ id |-> i, name |-> InstanceName(<<"web">>, k), state |-> "Stopped",
        pid |-> 1, restarts |-> 1, autorestart |-> TRUE, max_restarts |-> 2 ] :
      i \in 1..MaxId, k \in 0..1 }

\* The states handed to StateStore::save by a caller other than the
\* daemon, and the states of the files found at startup.
StateInputs ==
    { [ version |-> v, processes |-> ps ] :
        v \in Versions,
        ps \in UNION { [ 1..n -> PersistedInputs ] : n \in 0..2 } }

\* PersistedProcess built from a registry entry (build_state_from_manager)
Persisted(id, p) ==
    [ id |-> id, name |-> p.name, state |-> p.state, pid |-> p.pid,
      restarts |-> p.restarts, autorestart |-> p.config.autorestart,
      max_restarts |-> p.config.max_restarts ]

\* Daemon::build_state_from_manager: order is the order in which list()
\* yields the entries.
BuildState(procs, order) ==
    [ version |-> "1.0.0",
      processes |-> [ k \in 1..Len(order) |-> Persisted(order[k], procs[order[k]]) ] ]

\* The ProcessConfig Daemon::initialize builds from a persisted entry.
RestoredConfig(e) ==
    [ name |-> e.name, autorestart |-> e.autorestart,
      max_restarts |-> e.max_restarts,
      restart_delay_secs |-> 1, stop_signal |-> "SIGTERM",
      stop_timeout_secs |-> 10,
      max_memory |-> NoLimit, max_cpu |-> NoLimit,
      limit_action |-> "Log" ]

\* ProcessManager::stop with force = false, from its call to its return.
GracefulStop(procs, osv, id) ==
    LET p == procs[id]
        procs1 == [ procs EXCEPT ![id].state = "Stopping" ]
    IN  IF ~SignalDelivered(osv, p.pid)
          THEN [ ok |-> FALSE, procs |-> procs1, os |-> osv ]
          ELSE LET w == AfterWait(procs1, osv, id, osv[p.pid] = "alive")
               IN  [ ok |-> TRUE, procs |-> w.procs, os |-> w.os ]

\* ProcessManager::stop_all: a graceful stop of every entry, errors logged.
RECURSIVE StopAll(_, _, _)
StopAll(procs, osv, order) ==
    IF order = <<>>
      THEN [ procs |-> procs, os |-> osv ]
      ELSE LET r == GracefulStop(procs, osv, Head(order))
           IN  StopAll(r.procs, r.os, Tail(order))

\* A caller other than the daemon saves a state.
LibSave(state) ==
    /\ store.pc = "down"
    /\ store' = SaveBegin(store, state, "other")
    /\ UNCHANGED << processes, next_id, os, nspawn, limit, reuse, log, backoff, mon, conn, lock, cmd, sup >>

\* Daemon::initialize up to the restore loop
Initialize ==
    /\ store.pc = "down"
    /\ LET r == Load(store.file) IN
       store' = IF r.ok
                  THEN [ store EXCEPT !.pc = "restoring", !.err = "none",
                                      !.state = r.state,
                                      !.queue = r.state.processes,
                                      !.pure = store.clean ]
                  ELSE [ store EXCEPT !.pc = "failed", !.err = r.err ]
    /\ UNCHANGED << processes, next_id, os, nspawn, limit, reuse, log, backoff, mon, conn, lock, cmd, sup >>

\* One round of the restore loop of Daemon::initialize: spawn_process on
\* the next persisted entry, an error being printed and passed over.
RestoreNext ==
    /\ store.pc = "restoring"
    /\ store.queue # <<>>
    /\ LET cfg == RestoredConfig(Head(store.queue)) IN
       \E scriptExists \in BOOLEAN :
         IF \/ NameTaken(processes, cfg.name)
            \/ ~Validate(cfg)
            \/ ~CanFork(os, scriptExists)
         THEN /\ store' = [ store EXCEPT !.queue = Tail(@), !.pure = FALSE ]
              /\ UNCHANGED << processes, next_id, os, nspawn >>
         ELSE /\ next_id <= MaxId
              /\ nspawn < limit
              /\ \E q \in FreePids(os) :
                   /\ processes' = processes @@
                          (AllocId(processes, next_id) :> NewManaged(cfg, q))
                   /\ os' = [ os EXCEPT ![q] = "alive" ]
              /\ next_id' = next_id + 1
              /\ nspawn' = nspawn + 1
              /\ store' = [ store EXCEPT !.queue = Tail(@) ]
    /\ UNCHANGED << limit, reuse, log, backoff, mon, conn, lock, cmd, sup >>

\* Daemon::initialize after the restore loop: the IPC server starts.
RestoreDone ==
    /\ store.pc = "restoring"
    /\ store.queue = <<>>
    /\ store' = [ store EXCEPT !.pc = "up", !.restored = processes ]
    /\ UNCHANGED << processes, next_id, os, nspawn, limit, reuse, log, backoff, mon, conn, lock, cmd, sup >>

\* Daemon::shutdown_components: stop_all, build_state_from_manager and the
\* validation at the head of StateStore::save.
Shutdown ==
    /\ store.pc = "up"
    /\ lock = "free" /\ cmd.pc = "idle"
    /\ \E order \in Perms(Registered) :
         LET r == StopAll(processes, os, order) IN
         /\ processes' = r.procs
         /\ os' = r.os
         /\ \E listed \in Perms(Registered) :
              store' = [ SaveBegin(store, BuildState(r.procs, listed), "daemon")
                           EXCEPT !.base = r.procs ]
    /\ UNCHANGED << next_id, nspawn, limit, reuse, log, backoff, mon, conn, lock, cmd, sup >>

\* What is left of the store when the daemon process has ended: the files.
\* base is the registry the snapshot in the state file was built from, if
\* the file was written by a clean shutdown (clean).
Ended(st, clean) ==
    [ UpStore EXCEPT !.pc = "down", !.file = st.file, !.tmp = st.tmp,
                     !.clean = clean,
                     !.base = IF clean THEN st.base ELSE << >> ]

\* The daemon process has ended, after a shutdown or a failed start; the
\* next one begins with ProcessManager::new.
Exit ==
    /\ store.pc \in { "saved", "failed" }
    /\ store' = Ended(store, store.clean)
    /\ processes' = << >>
    /\ next_id' = FirstId
    /\ UNCHANGED << os, nspawn, limit, reuse, log, backoff, mon, conn, lock, cmd, sup >>

\* The daemon process is killed.
Die ==
    /\ store.pc \in { "up", "restoring", "save_create", "save_write", "save_rename" }
    /\ store' = Ended(store, store.clean /\ store.pc \in { "up", "restoring" })
    /\ processes' = << >>
    /\ next_id' = FirstId
    /\ lock' = "free"
    /\ cmd' = IdleCmd
    /\ sup' = IdleSup
    /\ UNCHANGED << os, nspawn, limit, reuse, log, backoff, mon, conn >>

\* The daemon started for the first time, served, shut down and started
\* again, any number of times.
PersistInit ==
    /\ processes = << >>
    /\ next_id = FirstId
    /\ os = [ q \in Pids |-> "free" ]
    /\ nspawn = 0
    /\ limit = MaxSpawns
    /\ reuse = FALSE
    /\ log = IdleLog
    /\ conn = IdleConn
    /\ store = [ UpStore EXCEPT !.pc = "down" ]
    /\ backoff = IdleBackoff
    /\ mon = IdleMon
    /\ lock = "free"
    /\ cmd = IdleCmd
    /\ sup = IdleSup

PersistNext ==
    \/ Initialize
    \/ RestoreNext
    \/ RestoreDone
    \/ store.pc = "up" /\ \E cfg \in Configs : ClientSpawn(cfg)
    \/ store.pc = "up" /\ \E id \in 1..MaxId : ClientStop(id, TRUE)
    \/ store.pc = "up" /\ \E id \in 1..MaxId : ClientDelete(TRUE, id, <<>>)
    \/ store.pc = "up" /\ Respond
    \/ \E q \in Pids : ChildExit(q)
    \/ Shutdown
    \/ SaveCreate
    \/ SaveWrite
    \/ SaveRename
    \/ Exit
    \/ Die

PersistSpec == PersistInit /\ [][PersistNext]_vars

\* The state store used by the daemon at its start and by other callers of
\* StateStore::save, on a state file that may come from anywhere.
StoreInit ==
    /\ processes = << >>
    /\ next_id = FirstId
    /\ os = [ q \in Pids |-> "free" ]
    /\ nspawn = 0
    /\ limit = MaxSpawns
    /\ reuse = FALSE
    /\ log = IdleLog
    /\ conn = IdleConn
    /\ store \in { [ UpStore EXCEPT !.pc = "down", !.file = f ] :
                     f \in { AbsentFile } \cup
                           { [ exists |-> TRUE, data |-> Serialize(s) ] :
                               s \in StateInputs } }
    /\ backoff = IdleBackoff
    /\ mon = IdleMon
    /\ lock = "free"
    /\ cmd = IdleCmd
    /\ sup = IdleSup

StoreNext ==
    \/ Initialize
    \/ RestoreNext
    \/ RestoreDone
    \/ \E state \in StateInputs : LibSave(state)
    \/ SaveCreate
    \/ SaveWrite
    \/ SaveRename
    \/ Exit
    \/ Die

StoreSpec == StoreInit /\ [][StoreNext]_vars

(***************************************************************************)
(* The Start and StartFromConfig handlers of the daemon: one spawn per     *)
(* instance, a logger per spawned entry, and the counts they report.       *)
(***************************************************************************)
\* Most instances one configuration of the model asks for.
MaxInstances == 2

\* What the environment does to one instance: the child is created and its
\* log files open, the child cannot be created (script missing, fork
\* failure), or the child is created and its log file cannot be opened.
EnvOutcomes == { "ok", "spawn_error", "log_error" }

\* Variant of the instance name that numbers a single instance too.
StartNameAlwaysNumbered(base, n, k) == InstanceName(base, k)

\* if instances > 1 { format!("{}-{}", base_name, instance_num) }
\* else { base_name.clone() }
StartName(base, n, k) == IF n > 1 THEN InstanceName(base, k) ELSE base

\* The ProcessConfig the Start handler builds for an instance.
StartConfig(name) ==
    [ name |-> name, autorestart |-> TRUE, max_restarts |-> 10,
      restart_delay_secs |-> 1, stop_signal |-> "SIGTERM",
      stop_timeout_secs |-> 10,
      max_memory |-> NoLimit, max_cpu |-> NoLimit,
      limit_action |-> "Log" ]

\* The instance configurations of Start: instance_num in 0..instances.
StartInstances(base, n) ==
    [ k \in 1..n |-> StartConfig(StartName(base, n, k - 1)) ]

\* The instance configurations of one entry of a configuration file:
\* config.clone() with the instance name.
FileInstances(entry) ==
    [ k \in 1..entry.instances |->
        [ entry.config EXCEPT
            !.name = StartName(entry.config.name, entry.instances, k - 1) ] ]

RECURSIVE Flatten(_)
Flatten(seqs) ==
    IF seqs = <<>> THEN <<>> ELSE Head(seqs) \o Flatten(Tail(seqs))

\* for config in configs { for instance_num in 0..instances { .. } }
AllFileInstances(file) ==
    Flatten([ e \in 1..Len(file) |-> FileInstances(file[e]) ])

\* The configuration files a client may point the daemon at: two replicas
\* of "web"; "web" and "web-0" as two single processes; "web-0" twice.
ConfigFiles ==
    LET a == CHOOSE c \in Configs : c.autorestart
        b == CHOOSE c \in Configs : ~c.autorestart /\ Validate(c)
    IN { << [ instances |-> MaxInstances,
              config |-> [ a EXCEPT !.name = <<"web">> ] ] >>,
         << [ instances |-> 1, config |-> [ b EXCEPT !.name = <<"web">> ] ],
            [ instances |-> 1, config |-> a ] >>,
         << [ instances |-> 1, config |-> a ],
            [ instances |-> 1, config |-> [ b EXCEPT !.name = a.name ] ] >> }

\* The registry and the OS as the loop of a handler begins.
LoopBegin ==
    [ procs |-> processes, os |-> os, nspawn |-> nspawn, next_id |-> next_id,
      spawned |-> <<>>, failed |-> 0 ]

\* The loop of the Start handlers from its k-th instance on: pm.spawn, and
\* on Ok lm.create_logger, whose failure skips to the next instance before
\* the id is counted.
RECURSIVE StartLoop(_, _, _, _)
StartLoop(st, cfgs, env, k) ==
    IF k > Len(cfgs) THEN st
    ELSE LET cfg == cfgs[k]
             id == AllocId(st.procs, st.next_id)
             q == st.nspawn + 1
         IN IF \/ NameTaken(st.procs, cfg.name)
               \/ ~Validate(cfg)
               \/ env[k] = "spawn_error"
               \/ st.nspawn >= limit
            THEN StartLoop([ st EXCEPT !.failed = @ + 1 ], cfgs, env, k + 1)
            ELSE LET in == [ st EXCEPT
                               !.procs = @ @@ (id :> NewManaged(cfg, q)),
                               !.os = [ @ EXCEPT ![q] = "alive" ],
                               !.next_id = @ + 1,
                               !.nspawn = @ + 1 ]
                 IN StartLoop(IF env[k] = "log_error" THEN in
                              ELSE [ in EXCEPT !.spawned = Append(@, id) ],
                              cfgs, env, k + 1)

\* The handler has gone through its instances: the registry it leaves, and
\* what it answers (Err when nothing was counted as spawned, else the first
\* id counted, the number counted and, from a file, the number failed).
StartReturn(op, options, cfgs, env) ==
    LET st == StartLoop(LoopBegin, cfgs, env, 1) IN
    /\ ~reuse
    /\ st.next_id <= MaxId + 1
    /\ processes' = st.procs
    /\ os' = st.os
    /\ nspawn' = st.nspawn
    /\ next_id' = st.next_id
    /\ cmd' = [ Outcome(op, IF st.spawned = <<>> \/ op = "start_config"
                              THEN NoId ELSE st.spawned[1],
                        FALSE, st.spawned # <<>>,
                        IF st.spawned = <<>> THEN "SpawnError" ELSE "none",
                        <<>>, Len(st.spawned), Snapshot(Registered))
                  EXCEPT !.config = options, !.env = env,
                         !.failed = IF op = "start_config" THEN st.failed
                                    ELSE 0 ]
    /\ lock' = "client"
    /\ UNCHANGED << limit, reuse, log, backoff, mon, conn, store, sup >>

\* Command::Start
ClientStart(base, n) ==
    /\ lock = "free" /\ cmd.pc = "idle"
    /\ \E env \in [ 1..n -> EnvOutcomes ] :
         StartReturn("start", [ name |-> base, instances |-> n ],
                     StartInstances(base, n), env)

\* Command::StartFromConfig
ClientStartFromConfig(file) ==
    /\ lock = "free" /\ cmd.pc = "idle"
    /\ \E env \in [ 1..Len(AllFileInstances(file)) -> EnvOutcomes ] :
         StartReturn("start_config", file, AllFileInstances(file), env)

\* The base names a Start command is given.
StartNames == { <<"web">>, InstanceName(<<"web">>, 0) }

(***************************************************************************)
(* The daemon serving Start, StartFromConfig, forced Stop and Delete       *)
(* commands while children exit.                                           *)
(***************************************************************************)
StartNext ==
    \/ \E base \in StartNames, n \in 0..MaxInstances : ClientStart(base, n)
    \/ \E file \in ConfigFiles : ClientStartFromConfig(file)
    \/ \E id \in 1..MaxId : ClientStop(id, TRUE)
    \/ \E id \in 1..MaxId : ClientDelete(TRUE, id, <<>>)
    \/ \E q \in Pids : ChildExit(q)
    \/ Respond

StartSpec == Init /\ [][StartNext]_vars

(***************************************************************************)
(* The exponential backoff as a function of the restart count: a policy is *)
(* drawn, and the delay is computed for one count after the other.         *)
(***************************************************************************)
\* Largest restart count the delay is computed for: one past the first
\* count the cast no longer holds.
MaxCount == Pow(2, CastBits) + 1

\* initial_delay_secs (restart_delay_secs of the configuration)
DelayInputs == { 0, 1, 2, 3, 7, MaxDelaySecs, MaxDelaySecs + 1, UMax }

\* max_delay_secs of BackoffStrategy::Exponential
MaxDelayInputs == { 0, 1, MaxDelaySecs - 1, MaxDelaySecs, UMax }

BackoffInit ==
    /\ processes = << >>
    /\ next_id = FirstId
    /\ os = [ q \in Pids |-> "free" ]
    /\ nspawn = 0
    /\ limit = MaxSpawns
    /\ reuse = FALSE
    /\ log = IdleLog
    /\ conn = IdleConn
    /\ store = UpStore
    /\ backoff \in { [ initial |-> i, max |-> m, count |-> 0,
                       delay |-> BackoffDelay(i, 0, m),
                       fixed |-> FixedDelay(i, 0) ] :
                       i \in DelayInputs, m \in MaxDelayInputs }
    /\ mon = IdleMon
    /\ lock = "free"
    /\ cmd = IdleCmd
    /\ sup = IdleSup

\* strategy.calculate_delay(initial_delay_secs, restart_count) for the next
\* restart count
BackoffStep ==
    /\ backoff.count < MaxCount
    /\ backoff' = [ backoff EXCEPT
                      !.count = @ + 1,
                      !.delay = BackoffDelay(backoff.initial,
                                             backoff.count + 1, backoff.max),
                      !.fixed = FixedDelay(backoff.initial, backoff.count + 1) ]
    /\ UNCHANGED << processes, next_id, os, nspawn, limit, reuse, log, conn, store,
                    mon, lock, cmd, sup >>

BackoffNext == BackoffStep

BackoffSpec == BackoffInit /\ [][BackoffNext]_vars

(***************************************************************************)
(* Resource ceilings: the samples the monitor takes of the children's      *)
(* memory and CPU use, and the limit enforcer that reacts to them.         *)
(***************************************************************************)
\* The ceiling of the configurations that set one, and the use the OS
\* reports for a child: below or above that ceiling.
Ceiling == 1
UsageLevels == { 0, 2 }
LimitActions == { "Log", "Restart", "Stop" }

\* The configurations with resource ceilings a configuration file holds:
\* "web-0" with both ceilings and each action, "web-1" with a memory
\* ceiling only or with no ceiling.
LimitConfigs ==
    LET a == CHOOSE c \in Configs : c.autorestart
        b == CHOOSE c \in Configs : ~c.autorestart /\ Validate(c)
    IN  { [ a EXCEPT !.max_memory = Ceiling, !.max_cpu = Ceiling,
                     !.limit_action = act ] : act \in LimitActions }
        \cup { [ b EXCEPT !.max_memory = Ceiling, !.limit_action = act ] :
                 act \in { "Log", "Stop" } }
        \cup { [ b EXCEPT !.limit_action = "Restart" ] }

LimitFiles == { << [ instances |-> 1, config |-> c ] >> : c \in LimitConfigs }

\* What the refreshed process table may answer for the pid of an entry:
\* a child that has exited and is not reaped may or may not be listed.
Listed(osv, pid, zombiesListed) ==
    osv[pid] = "alive" \/ (osv[pid] = "zombie" /\ zombiesListed)

\* The memory and CPU use the OS may report for a listed child: any level
\* for a running one, none for one that has exited.
Samples(osv, pid) ==
    IF osv[pid] = "alive"
      THEN { [ mem |-> m, cpu |-> c ] : m \in UsageLevels, c \in UsageLevels }
      ELSE { [ mem |-> 0, cpu |-> 0 ] }

\* ProcessMonitor::update_process_stats on the entries in Running: the
\* sample of a listed child is stored in its stats, an entry whose child
\* is not listed is marked Errored.
MonitorTick ==
    /\ lock = "free" /\ cmd.pc = "idle"
    /\ \E zombiesListed \in BOOLEAN :
         LET running == { i \in Registered : processes[i].state = "Running" }
             found == { i \in running :
                          Listed(os, processes[i].pid, zombiesListed) }
         IN  /\ processes' = MarkErrored(processes, running \ found)
             /\ \E sample \in [ found -> UNION { Samples(os, q) : q \in Pids } ] :
                  /\ \A i \in found : sample[i] \in Samples(os, processes[i].pid)
                  /\ mon' = [ mon EXCEPT !.stats =
                        [ i \in DOMAIN @ |->
                            IF i \in found
                              THEN [ @[i] EXCEPT
                                       !.memory_usage = sample[i].mem,
                                       !.cpu_usage = sample[i].cpu ]
                              ELSE @[i] ] ]
    /\ << processes', mon' >> # << processes, mon >>
    /\ UNCHANGED << next_id, os, nspawn, limit, reuse, log, conn, store, backoff,
                    lock, cmd, sup >>

\* stats.memory_usage > config.max_memory, with a ceiling set
OverMemory(p, s) ==
    p.config.max_memory # NoLimit /\ s.memory_usage > p.config.max_memory

\* stats.cpu_usage > config.max_cpu, with a ceiling set
OverCpu(p, s) ==
    p.config.max_cpu # NoLimit /\ s.cpu_usage > p.config.max_cpu

\* ProcessStats::record_memory_violation / record_cpu_violation for the
\* ceilings that are exceeded
RecordViolations(p, s) ==
    [ s EXCEPT
        !.memory_violations = IF OverMemory(p, s) THEN @ + 1 ELSE @,
        !.cpu_violations = IF OverCpu(p, s) THEN @ + 1 ELSE @ ]

\* ProcessManager::restart from its call to its return: a graceful stop,
\* spawn_process, and the update of the entry and of its stats.
RestartEntry(st, id, scriptExists) ==
    LET r == GracefulStop(st.procs, st.os, id)
        q == st.nspawn + 1
    IN  IF ~r.ok \/ ~scriptExists \/ st.nspawn >= limit
          THEN [ st EXCEPT !.procs = r.procs, !.os = r.os ]
          ELSE [ st EXCEPT
                   !.procs = [ r.procs EXCEPT ![id] = RecordRestart(@, q) ],
                   !.os = [ r.os EXCEPT ![q] = "alive" ],
                   !.nspawn = q,
                   !.stats[id].memory_usage = 0,
                   !.stats[id].cpu_usage = 0 ]

\* The limit_action of an entry found above a ceiling.
ApplyLimitAction(st, id, scriptExists) ==
    LET act == st.procs[id].config.limit_action IN
    IF act = "Stop"
      THEN LET r == GracefulStop(st.procs, st.os, id)
           IN  [ st EXCEPT !.procs = r.procs, !.os = r.os ]
    ELSE IF act = "Restart" THEN RestartEntry(st, id, scriptExists)
    ELSE st

\* The enforcer on the entries in the order it meets them: the violation
\* counters, then the action.
RECURSIVE Enforce(_, _, _)
Enforce(st, order, scriptExists) ==
    IF order = <<>> THEN st
    ELSE LET id == Head(order)
             p == st.procs[id]
             s == st.stats[id]
             counted == [ st EXCEPT !.stats[id] = RecordViolations(p, s) ]
         IN  Enforce(IF OverMemory(p, s) \/ OverCpu(p, s)
                       THEN ApplyLimitAction(counted, id, scriptExists)
                       ELSE st,
                     Tail(order), scriptExists)

\* Most violations the model counts for one entry and one ceiling.
MaxViolations == 1

\* One tick of the limit enforcer, under the registry lock.
EnforcerTickIn(order, scriptExists) ==
    /\ lock = "free" /\ cmd.pc = "idle" /\ ~reuse
    /\ LET st == Enforce([ procs |-> processes, os |-> os, nspawn |-> nspawn,
                           stats |-> mon.stats ], order, scriptExists)
       IN  /\ \A i \in DOMAIN st.stats :
                /\ st.stats[i].memory_violations <= MaxViolations
                /\ st.stats[i].cpu_violations <= MaxViolations
           /\ processes' = st.procs
           /\ os' = st.os
           /\ nspawn' = st.nspawn
           /\ mon' = [ mon EXCEPT !.stats = st.stats ]
    /\ UNCHANGED << next_id, limit, reuse, log, conn, store, backoff, lock, cmd,
                    sup >>

EnforcerTick ==
    \E order \in Perms(Registered), scriptExists \in BOOLEAN :
        /\ EnforcerTickIn(order, scriptExists)
        /\ << processes', mon' >> # << processes, mon >>

(***************************************************************************)
(* The daemon with entries started from configuration files that set       *)
(* ceilings, the monitor, the enforcer, forced Stop commands and children  *)
(* that exit.                                                              *)
(***************************************************************************)
LimitNext ==
    \/ \E file \in LimitFiles : ClientStartFromConfig(file)
    \/ \E id \in 1..MaxId : ClientStop(id, TRUE)
    \/ \E q \in Pids : ChildExit(q)
    \/ Respond
    \/ MonitorTick
    \/ EnforcerTick

LimitSpec == Init /\ [][LimitNext]_vars

(***************************************************************************)
(* The registry under ProcessSupervisor, the supervisor the library        *)
(* exports: check_health borrows the manager for a whole cycle and keeps   *)
(* the set of ids it is restarting.                                        *)
(***************************************************************************)
\* Variant of cleanup_restarting that only drops the ids of removed
\* entries.
CleanupRestartingOnlyMissing(procs, restarting) ==
    { id \in restarting : id \in DOMAIN procs }

\* ProcessSupervisor::cleanup_restarting: the ids that stay in the set
CleanupRestarting(procs, restarting) ==
    { id \in restarting : id \in DOMAIN procs /\ procs[id].state # "Running" }

\* ProcessSupervisor::check_health up to the first crashed entry:
\* detect_crashes; with nothing crashed, update_stats and
\* cleanup_restarting follow at once.
HealthDetect ==
    /\ sup.pc = "idle"
    /\ lock = "free"
    /\ LET running == { i \in Registered : processes[i].state = "Running" } IN
       \E dead \in SUBSET { i \in running : PossiblyGone(os, processes[i].pid) } :
         /\ { i \in running : CertainlyGone(os, processes[i].pid) } \subseteq dead
         /\ processes' = MarkErrored(processes, dead)
         /\ IF dead = {}
              THEN /\ sup' = [ sup EXCEPT !.restarting =
                                 CleanupRestarting(processes, @),
                                                !.errors = 0 ]
                   /\ lock' = lock
              ELSE /\ \E order \in Perms(dead) :
                        \E pick \in [ dead -> Registered ] :
                          /\ \A i \in dead : processes[pick[i]].pid = processes[i].pid
                          /\ sup' = [ sup EXCEPT
                                 !.pc = "health_pending",
                                 !.crashed = [ k \in 1..Cardinality(dead) |-> pick[order[k]] ],
                                 !.remaining = 0,
                                 !.errors = 0 ]
                   /\ lock' = "sup"
    /\ UNCHANGED << next_id, os, nspawn, limit, reuse, log, backoff, mon, conn, store, cmd >>

\* Variant of the loop of check_health that returns on the first error of
\* handle_crash.
HealthAdvanceReturnOnError(procs2, os2, ns2, restarting2, failed) ==
    /\ processes' = procs2
    /\ os' = os2
    /\ nspawn' = ns2
    /\ IF Len(sup.crashed) = 1 \/ failed
         THEN /\ sup' = [ IdleSup EXCEPT
                            !.restarting = IF failed THEN restarting2
                                           ELSE CleanupRestarting(procs2, restarting2),
                            !.errors = sup.errors + (IF failed THEN 1 ELSE 0) ]
              /\ lock' = "free"
         ELSE /\ sup' = [ sup EXCEPT !.pc = "health_pending",
                                     !.crashed = Tail(sup.crashed),
                                     !.remaining = 0,
                                     !.restarting = restarting2 ]
              /\ lock' = "sup"
    /\ UNCHANGED << next_id, limit, reuse, log, backoff, mon, conn, store, cmd >>

\* The loop of check_health moves on to the next crashed id, logging the
\* error of handle_crash if it failed; after the last one come
\* update_stats, which leaves every state alone, and cleanup_restarting.
HealthAdvance(procs2, os2, ns2, restarting2, failed) ==
    /\ processes' = procs2
    /\ os' = os2
    /\ nspawn' = ns2
    /\ IF Len(sup.crashed) = 1
         THEN /\ sup' = [ IdleSup EXCEPT
                            !.restarting = CleanupRestarting(procs2, restarting2),
                            !.errors = sup.errors + (IF failed THEN 1 ELSE 0) ]
              /\ lock' = "free"
         ELSE /\ sup' = [ sup EXCEPT !.pc = "health_pending",
                                     !.crashed = Tail(sup.crashed),
                                     !.remaining = 0,
                                     !.restarting = restarting2,
                                     !.errors = @ + (IF failed THEN 1 ELSE 0) ]
              /\ lock' = "sup"
    /\ UNCHANGED << next_id, limit, reuse, log, backoff, mon, conn, store, cmd >>

\* ProcessSupervisor::handle_crash up to the backoff sleep inside
\* try_auto_restart
HandleCrash ==
    /\ sup.pc = "health_pending"
    /\ LET id == Head(sup.crashed) IN
       IF id \in sup.restarting
         THEN HealthAdvance(processes, os, nspawn, sup.restarting, FALSE)
       ELSE IF id \notin Registered
         THEN HealthAdvance(processes, os, nspawn, sup.restarting, TRUE)
       ELSE IF ~ShouldRestart(Policy(processes[id]), processes[id].tracker)
         THEN HealthAdvance(processes, os, nspawn, sup.restarting, TRUE)
       ELSE /\ sup' = [ sup EXCEPT !.pc = "health_sleep",
                          !.remaining = CalculateDelay(Policy(processes[id]),
                                                       processes[id].tracker),
                          !.restarting = @ \cup { id } ]
            /\ UNCHANGED << processes, next_id, os, nspawn, limit, reuse, log, backoff, mon, conn, store, lock, cmd >>

\* ProcessSupervisor::handle_crash after the backoff sleep: the rest of
\* try_auto_restart and the match on its result
HandleCrashRespawn ==
    /\ sup.pc = "health_sleep"
    /\ sup.remaining = 0
    /\ LET id == Head(sup.crashed) IN
       \E scriptExists \in BOOLEAN :
         IF ~CanFork(os, scriptExists)
         THEN HealthAdvance(processes, os, nspawn, sup.restarting \ { id }, TRUE)
         ELSE /\ nspawn < limit
              /\ \E q \in FreePids(os) :
                   HealthAdvance([ processes EXCEPT ![id] = RecordRestart(@, q) ],
                                 [ os EXCEPT ![q] = "alive" ], nspawn + 1,
                                 sup.restarting, FALSE)

HealthInit ==
    /\ processes = << >>
    /\ next_id = FirstId
    /\ os = [ q \in Pids |-> "free" ]
    /\ nspawn = 0
    /\ limit = MaxSpawnsRolling
    /\ reuse = TRUE
    /\ log = IdleLog
    /\ conn = IdleConn
    /\ store = UpStore
    /\ backoff = IdleBackoff
    /\ mon = IdleMon
    /\ lock = "free"
    /\ cmd = IdleCmd
    /\ sup = IdleSup

HealthNext ==
    \/ \E q \in Pids : ChildExit(q)
    \/ \E q \in Pids : OrphanReap(q)
    \/ AdvanceTime
    \/ \E cfg \in Configs : ClientSpawn(cfg)
    \/ \E id \in 1..MaxId, force \in BOOLEAN : ClientStop(id, force)
    \/ \E id \in 1..MaxId : ClientDelete(TRUE, id, <<>>)
    \/ StopWaitFinish
    \/ Respond
    \/ HealthDetect
    \/ HandleCrash
    \/ HandleCrashRespawn

HealthSpec == HealthInit /\ [][HealthNext]_vars

(***************************************************************************)
(* The daemon with its stats update loop: every two seconds the loop takes *)
(* the write lock and calls ProcessManager::update_stats, which is         *)
(* ProcessMonitor::update_all_stats.                                       *)
(***************************************************************************)
\* ProcessMonitor::update_all_stats.  When the rate limit allows a refresh
\* and some entry is Running, the rows of the process table for the pids of
\* the Running entries are refreshed (a pid that is not listed loses its
\* row) and the CPU cache takes the CPU value of each row.
UpdateAllStats(refresh) ==
    /\ lock = "free" /\ cmd.pc = "idle"
    /\ LET running == { i \in Registered : processes[i].state = "Running" }
           running_pids == { processes[i].pid : i \in running }
       IN  IF ~refresh \/ running_pids = {}
             THEN mon' = mon
             ELSE \E zombiesListed \in BOOLEAN :
                    \E table \in [ running_pids ->
                                     { NotListed } \cup
                                     { [ listed |-> TRUE, mem |-> sm.mem, cpu |-> sm.cpu ] :
                                         sm \in UNION { Samples(os, q) : q \in Pids } } ] :
                      /\ \A q \in running_pids :
                           IF Listed(os, q, zombiesListed)
                             THEN /\ table[q].listed
                                  /\ [ mem |-> table[q].mem, cpu |-> table[q].cpu ]
                                        \in Samples(os, q)
                             ELSE table[q] = NotListed
                      /\ mon' = [ mon EXCEPT !.system =
                                    [ q \in Pids |-> IF q \in running_pids
                                                       THEN table[q] ELSE @[q] ] ]
    /\ UNCHANGED << processes, next_id, os, nspawn, limit, reuse, log, conn, store,
                    backoff, lock, cmd, sup >>

\* One tick of stats_update_loop
StatsTick == \E refresh \in BOOLEAN : UpdateAllStats(refresh)

StatsNext ==
    \/ \E q \in Pids : ChildExit(q)
    \/ \E cfg \in Configs : ClientSpawn(cfg)
    \/ \E id \in 1..MaxId, force \in BOOLEAN : ClientStop(id, force)
    \/ StopWaitFinish
    \/ AdvanceTime
    \/ Respond
    \/ StatsTick

StatsSpec == Init /\ [][StatsNext]_vars

(***************************************************************************)
(* One stream of a LogWriter (write_stdout; write_stderr is the same code  *)
(* on the other file): the file at the stream's path, the rotated files in *)
(* the log directory by the timestamp in their names, and the clock.       *)
(***************************************************************************)
MaxEntries == 4
MaxLogSeconds == 1

\* Length of "[YYYY-MM-DD HH:MM:SS.mmm] "
PrefixLen == 26

\* The chunks of output a child may hand to the writer: their length and
\* whether they end with a newline.
Chunks ==
    { [ len |-> 0, newline |-> FALSE ], [ len |-> 4, newline |-> TRUE ],
      [ len |-> 4, newline |-> FALSE ] }

\* max_size of LogWriter::with_max_size
MaxSizes == { 0, 30, 60 }

\* What the file system may answer during a write.
WriteOutcomes == { "ok", "rename_error", "reopen_error", "write_error" }

\* LogWriter::format_log_entry: length of the entry for a chunk
EntryLen(data) == PrefixLen + data.len + (IF data.newline THEN 0 ELSE 1)

\* LogWriter::rotate_log: the file is renamed to the name with the current
\* second; rename replaces a file that has that name.
Rotated(rotated, now, file) ==
    [ t \in DOMAIN rotated \cup { now } |->
        IF t = now THEN file ELSE rotated[t] ]

\* LogWriter::write_stdout
WriteStdout(data, outcome) ==
    /\ log.max_size \in MaxSizes
    /\ Cardinality(log.written) < MaxEntries
    /\ LET entry == [ id |-> Cardinality(log.written) + 1,
                      len |-> EntryLen(data) ]
           rotate == log.size >= log.max_size
           renamed == [ log EXCEPT !.rotated = Rotated(@, log.now, log.file),
                                   !.file = << >>,
                                   !.exists = FALSE,
                                   !.ok = FALSE ]
           opened == IF rotate
                       THEN [ renamed EXCEPT !.exists = TRUE, !.size = 0 ]
                       ELSE [ log EXCEPT !.ok = FALSE ]
       IN  IF rotate /\ (outcome = "rename_error" \/ ~log.exists)
             THEN log' = [ log EXCEPT !.ok = FALSE ]
           ELSE IF rotate /\ outcome = "reopen_error"
             THEN log' = renamed
           ELSE IF outcome = "write_error"
             THEN log' = opened
           ELSE log' = [ opened EXCEPT !.file = Append(@, entry),
                                       !.size = @ + entry.len,
                                       !.written = @ \cup { entry.id },
                                       !.ok = TRUE ]
    /\ UNCHANGED << processes, next_id, os, nspawn, limit, reuse, conn, store,
                    backoff, mon, lock, cmd, sup >>

\* A second passes.
LogTick ==
    /\ log.max_size \in MaxSizes
    /\ log.now < MaxLogSeconds
    /\ log' = [ log EXCEPT !.now = @ + 1 ]
    /\ UNCHANGED << processes, next_id, os, nspawn, limit, reuse, conn, store,
                    backoff, mon, lock, cmd, sup >>

\* LogWriter::with_max_size on an empty log directory
LogInit ==
    /\ processes = << >>
    /\ next_id = FirstId
    /\ os = [ q \in Pids |-> "free" ]
    /\ nspawn = 0
    /\ limit = MaxSpawns
    /\ reuse = FALSE
    /\ log \in { [ IdleLog EXCEPT !.max_size = m, !.exists = TRUE ] :
                   m \in MaxSizes }
    /\ conn = IdleConn
    /\ store = UpStore
    /\ backoff = IdleBackoff
    /\ mon = IdleMon
    /\ lock = "free"
    /\ cmd = IdleCmd
    /\ sup = IdleSup

LogNext ==
    \/ \E data \in Chunks, outcome \in WriteOutcomes : WriteStdout(data, outcome)
    \/ LogTick

LogSpec == LogInit /\ [][LogNext]_vars

TypeOK ==
    /\ next_id \in FirstId..(MaxId + 1)
    /\ Registered \subseteq 1..MaxId
    /\ \A i \in Registered :
         /\ processes[i].state \in { "Starting", "Running", "Stopping", "Stopped", "Errored" }
         /\ processes[i].pid \in Pids
    /\ lock \in { "free", "read", "client", "sup" }
    /\ nspawn <= limit
    /\ reuse \in BOOLEAN
    /\ conn.pc \in { "idle", "received", "handled", "written", "failed" }
    /\ store.pc \in { "down", "failed", "restoring", "up", "save_create",
                    "save_write", "save_rename", "saved" }


(***************************************************************************)
(* Properties.                                                             *)
(***************************************************************************)
\* A handler returns in this step.
Returns(op) == cmd.pc # "done" /\ cmd'.pc = "done" /\ cmd'.op = op

\* Number of restarts of entry p that lie inside the restart window.
RecentRestarts(p) ==
    Cardinality({ k \in 1..Len(p.tracker) : p.tracker[k] < TimeWindowSecs })

\* C1: in every reachable state no two registry entries have the same
\* name.
C1_NamesUnique ==
    \A i, j \in Registered : i # j => processes[i].name # processes[j].name

\* Two entries are registered and a spawn under a name in use was rejected.
C1_Witness ==
    /\ cmd.pc = "done" /\ cmd.op = "spawn" /\ cmd.err = "AlreadyExists"
    /\ Cardinality(Registered) = 2

\* C2: every live child is the current child of some registry entry, so
\* that an entry has at most one live child and no spawned child is left
\* running outside the registry.
C2_OneLiveChildPerEntry == \A q \in Pids : os[q] = "alive" => Owned(q)

\* C3: when the supervisor handles a crashed entry that has auto-restart
\* enabled and already max_restarts restarts inside the window, it does not
\* start a restart: the entry, the process table and the number of spawned
\* children stay as they are and no backoff sleep begins.
C3_PolicyGate ==
    [][ \A i \in Registered :
          ( /\ sup.pc \in { "pending", "sleep" }
            /\ sup' # sup
            /\ Head(sup.crashed) = i
            /\ processes[i].config.autorestart
            /\ RecentRestarts(processes[i]) >= processes[i].config.max_restarts )
          => ( /\ sup'.pc # "sleep"
               /\ processes' = processes
               /\ os' = os
               /\ nspawn' = nspawn ) ]_vars

\* The supervisor has dealt with the crash of an entry that used up its
\* max_restarts restarts inside the window: the entry is left Errored.
C3_Witness ==
    /\ sup.pc = "idle" /\ cmd.pc = "idle"
    /\ \E i \in Registered :
         /\ processes[i].state = "Errored"
         /\ processes[i].config.autorestart
         /\ processes[i].restarts = processes[i].config.max_restarts
         /\ RecentRestarts(processes[i]) = processes[i].config.max_restarts

\* C4: a successful Restart(id) keeps the entry under the same id, name and
\* config, adds exactly one to stats.restarts and one timestamp to the
\* tracker, makes stats.pid the pid of a child spawned by this call, and
\* leaves the entry Running.
C4_RestartIdentity ==
    [][ (Returns("restart") /\ cmd'.ok) =>
          LET i == cmd'.id
              old == cmd'.pre[i]
              new == processes'[i]
          IN  /\ DOMAIN processes' = DOMAIN processes
              /\ i \in DOMAIN processes'
              /\ new.name = old.name
              /\ new.config = old.config
              /\ new.restarts = old.restarts + 1
              /\ Len(new.tracker) = Len(old.tracker) + 1
              /\ new.tracker[Len(new.tracker)] = 0
              /\ new.pid # old.pid
              /\ os[new.pid] = "free"
              /\ os'[new.pid] = "alive"
              /\ new.state = "Running" ]_vars

\* A Restart of a running entry has returned success.
C4_Witness ==
    /\ cmd.pc = "done" /\ cmd.op = "restart" /\ cmd.ok
    /\ cmd.pre[cmd.id].state = "Running"
    /\ processes[cmd.id].restarts = cmd.pre[cmd.id].restarts + 1

\* C5: Stop(id, force = true) on an entry that a Stop has already left
\* Stopped, with its child reaped, returns success and changes nothing.
C5_ForceStopIdempotent ==
    [][ ( /\ cmd.pc = "idle"
          /\ Returns("stop")
          /\ cmd'.force
          /\ cmd'.id \in Registered
          /\ processes[cmd'.id].state = "Stopped" )
        => ( /\ cmd'.ok
             /\ processes' = processes
             /\ os' = os ) ]_vars

\* The child of a Running or Errored entry i has exited on its own.
CrashedChild(i) ==
    /\ processes[i].state \in { "Running", "Errored" }
    /\ os[processes[i].pid] # "alive"

\* C6: Stop(id, force), for either value of force, on a Running or Errored
\* entry whose child has already exited does not fail: a forced Stop returns
\* success at once, a graceful Stop gets its signal accepted and then
\* returns success, and in both cases the child is reaped and the entry is
\* Stopped.
C6_StopAfterCrash ==
    [][ /\ ( /\ cmd.pc = "idle" /\ cmd'.pc # "idle" /\ cmd'.op = "stop"
             /\ cmd'.id \in Registered
             /\ CrashedChild(cmd'.id) )
           => IF cmd'.force
                THEN /\ cmd'.pc = "done" /\ cmd'.ok
                     /\ processes'[cmd'.id].state = "Stopped"
                     /\ os'[processes[cmd'.id].pid] = "free"
                ELSE cmd'.pc = "stop_wait"
        /\ ( /\ cmd.pc = "stop_wait" /\ cmd.op = "stop" /\ cmd' # cmd
             /\ os[processes[cmd.id].pid] # "alive" )
           => ( /\ cmd'.pc = "done" /\ cmd'.ok
                /\ processes'[cmd.id].state = "Stopped"
                /\ os'[processes[cmd.id].pid] = "free" ) ]_vars

\* A graceful Stop of an entry whose crash had been detected has returned
\* success and the entry is Stopped.
C6_Witness ==
    /\ cmd.pc = "done" /\ cmd.op = "stop" /\ ~cmd.force /\ cmd.ok
    /\ cmd.pre[cmd.id].state = "Errored"
    /\ processes[cmd.id].state = "Stopped"
    /\ processes[cmd.id].reaped

\* While a graceful stop waits for its child, no more than stop_timeout_secs
\* have passed since it began, and the wait can still make progress: either
\* its timer is running or the handler can resume.
C7_WaitBounded ==
    cmd.pc = "stop_wait" =>
      /\ cmd.elapsed <= processes[cmd.id].config.stop_timeout_secs
      /\ os[processes[cmd.id].pid] = "alive" =>
           IF cmd.remaining > 0 THEN ENABLED AdvanceTime
                                ELSE ENABLED StopWaitFinish

\* The wait of a graceful stop ends on a child that is still running: this
\* happens stop_timeout_secs after the stop began, SIGKILL is sent, the child
\* is reaped, and a Stop returns success with the entry Stopped.
C7_KillOnTimeout ==
    ( /\ cmd.pc = "stop_wait" /\ cmd'.pc # "stop_wait"
      /\ os[processes[cmd.id].pid] = "alive" )
    => ( /\ cmd.elapsed = processes[cmd.id].config.stop_timeout_secs
         /\ cmd'.sigs[Len(cmd'.sigs)] = "SIGKILL"
         /\ os'[processes[cmd.id].pid] = "free"
         /\ cmd.op = "stop" =>
              ( /\ cmd'.pc = "done" /\ cmd'.ok
                /\ processes'[cmd.id].state = "Stopped" ) )

\* C7: a graceful Stop of a child that does not exit on the stop signal
\* sends SIGKILL no later than stop_timeout_secs after it began, reaps the
\* child and returns with the entry Stopped; it never waits without end.
C7_GracefulToForced == [] C7_WaitBounded /\ [][ C7_KillOnTimeout ]_vars

\* A graceful Stop with a grace period has returned after its timeout ran
\* out and it sent SIGKILL.
C7_Witness ==
    /\ cmd.pc = "done" /\ cmd.op = "stop" /\ ~cmd.force /\ cmd.ok
    /\ Len(cmd.sigs) = 2 /\ cmd.sigs[2] = "SIGKILL"
    /\ cmd.elapsed > 0
    /\ cmd.elapsed = processes[cmd.id].config.stop_timeout_secs
    /\ processes[cmd.id].state = "Stopped"

\* C8: the first signal a Stop sends is SIGKILL when force is true and the
\* stop_signal of the entry's config when force is false.
C8_FirstSignal ==
    ( cmd.op = "stop" /\ cmd.sigs # <<>> ) =>
      cmd.sigs[1] = IF cmd.force THEN "SIGKILL"
                    ELSE cmd.pre[cmd.id].config.stop_signal

\* A rolling restart of at least two replicas, all Running when it began,
\* is in progress or has just returned.
RollingAllRunning ==
    /\ cmd.op = "rolling" /\ cmd.pc # "idle"
    /\ Cardinality(DOMAIN cmd.pre) >= 2
    /\ \A i \in DOMAIN cmd.pre : cmd.pre[i].state = "Running"

\* C9: during a rolling restart of N >= 2 replicas that were all Running
\* when it began, at most one of the replicas is in a state other than
\* Running at any time.
C9_RollingAvailability ==
    RollingAllRunning =>
      Cardinality({ i \in DOMAIN cmd.pre : processes[i].state # "Running" }) <= 1

\* The rolling restart has restarted its first replica and is stopping the
\* second one.
C9_Witness ==
    /\ RollingAllRunning
    /\ cmd.pc = "stop_wait" /\ cmd.count = 1
    /\ processes[cmd.id].state = "Stopping"
    /\ \E i \in DOMAIN cmd.pre :
         /\ processes[i].restarts = cmd.pre[i].restarts + 1
         /\ processes[i].state = "Running"

\* Entry i has been restarted by the rolling restart that returns in this
\* step: same id, one more restart, a new child, Running.
RolledOver(i) ==
    /\ i \in DOMAIN processes'
    /\ processes'[i].name = cmd'.pre[i].name
    /\ processes'[i].restarts = cmd'.pre[i].restarts + 1
    /\ processes'[i].pid # cmd'.pre[i].pid
    /\ processes'[i].state = "Running"

\* Entry i has not been touched by the rolling restart that returns in this
\* step.
Untouched(i) ==
    /\ i \in DOMAIN processes'
    /\ processes'[i].pid = cmd'.pre[i].pid
    /\ processes'[i].restarts = cmd'.pre[i].restarts
    /\ processes'[i].state = cmd'.pre[i].state

\* C10: a rolling restart of N replicas returns Ok(N) only with every
\* replica restarted (same id, one more restart, Running) and its last
\* replica not found dead; when it returns an error, fewer than N replicas
\* are counted, the replicas before the failing one are restarted, the
\* replicas after it are untouched, and a failed liveness check is that of
\* a child that is not running.
C10_RollingResult ==
    [][ ( Returns("rolling") /\ cmd'.pre # << >> ) =>
          LET targets == DOMAIN cmd'.pre
              later == { cmd'.queue[k] : k \in 1..Len(cmd'.queue) }
              earlier == targets \ (later \cup { cmd'.id })
          IN  IF cmd'.ok
                THEN /\ cmd'.count = Cardinality(targets)
                     /\ \A i \in targets : RolledOver(i)
                     /\ later = {}
                     /\ os'[processes'[cmd'.id].pid] # "free"
                ELSE /\ cmd'.count < Cardinality(targets)
                     /\ cmd'.count = Cardinality(earlier)
                     /\ \A i \in earlier : RolledOver(i)
                     /\ \A i \in later : Untouched(i)
                     /\ cmd'.err \in { "StopError", "SpawnError", "RestartError" }
                     /\ cmd'.err = "RestartError" =>
                          os'[processes'[cmd'.id].pid] # "alive" ]_vars

\* A rolling restart of two replicas has returned Ok(2).
C10_Witness ==
    /\ cmd.pc = "done" /\ cmd.op = "rolling" /\ cmd.ok
    /\ cmd.count = 2
    /\ Cardinality(DOMAIN cmd.pre) = 2


\* Entry i is Running, its child has died, auto-restart is enabled and
\* fewer than max_restarts restarts lie inside the window; r restarts are
\* recorded.
DiedWhileRunning(i, r) ==
    /\ i \in Registered
    /\ processes[i].state = "Running"
    /\ os[processes[i].pid] # "alive"
    /\ processes[i].config.autorestart
    /\ RecentRestarts(processes[i]) < processes[i].config.max_restarts
    /\ processes[i].restarts = r

\* Entry i is Running again with one restart more than r.
RunningAgain(i, r) ==
    /\ i \in Registered
    /\ processes[i].state = "Running"
    /\ processes[i].restarts = r + 1

\* A client command has taken entry i out of supervision: it is being
\* stopped, is stopped, or is deleted.
ClientTookOver(i) ==
    \/ i \notin Registered
    \/ processes[i].state \in { "Stopping", "Stopped" }

Returned == { sup'.crashed[k] : k \in 1..Len(sup'.crashed) }

\* The entries detect_crashes marks Errored in this step.
Marked ==
    { i \in Registered : processes[i].state # "Errored"
                         /\ processes'[i].state = "Errored" }

\* C12: detect_crashes returns exactly the ids of the entries it marks
\* Errored, and these were Running with a child that is no longer alive;
\* it returns no id of an entry that was in another state and marks no
\* entry without returning its id, also when entries record the same pid.
C12_DetectExact ==
    [][ ( sup.pc = "idle" /\ sup'.pc = "pending" ) =>
          /\ Returned = Marked
          /\ Len(sup'.crashed) = Cardinality(Marked)
          /\ \A i \in Returned :
               /\ processes[i].state = "Running"
               /\ os[processes[i].pid] # "alive" ]_vars


\* A task is asleep or waiting for a child: the supervisor in the backoff
\* sleep of try_auto_restart, the handler in the timed wait of stop or in
\* the health-check sleep of a rolling restart.
TaskWaiting ==
    \/ sup.pc = "sleep" /\ sup.remaining > 0
    \/ StopWaitBlocked /\ cmd.remaining > 0
    \/ cmd.pc = "roll_sleep" /\ cmd.remaining > 0

\* C13: while a task sleeps the backoff delay, sleeps the health-check
\* delay or waits for a signalled child to exit, the registry lock is free,
\* so that another task can take it.
C13_LockFreeWhileWaiting == TaskWaiting => lock = "free"


\* An entry changes its state, or an entry is inserted into or removed from
\* the registry, in this step.
RegistryChange ==
    \/ Registered' # Registered
    \/ next_id' # next_id
    \/ \E i \in Registered \cap Registered' :
         processes'[i].state # processes[i].state

\* The task that takes this step holds the write lock while it takes it:
\* the handler or the supervisor had it or takes it, or the supervisor
\* takes and drops it around detect_crashes.
WriterStep ==
    \/ lock = "client" /\ sup' = sup
    \/ lock = "sup" /\ cmd' = cmd
    \/ lock = "free" /\ lock' = "client" /\ sup' = sup
    \/ lock = "free" /\ lock' = "sup" /\ cmd' = cmd
    \/ lock = "free" /\ lock' = "free" /\ cmd' = cmd
         /\ sup.pc \in { "idle", "pending" } /\ sup' # sup

\* C14: every change of an entry's state and every insertion into or
\* removal from the registry is a step of a task that holds the write lock;
\* a task that holds the read lock (List, Logs) changes nothing.
C14_ChangesUnderWriteLock ==
    [][ /\ RegistryChange => WriterStep
        /\ ( lock = "read" \/ lock' = "read" ) => ~RegistryChange ]_vars

\* A List handler holds the read lock over a registry whose entries have
\* changed state before.
C14_Witness ==
    /\ lock = "read" /\ cmd.pc = "done" /\ cmd.op = "list"
    /\ cmd.count = 2
    /\ \E i \in Registered : processes[i].state = "Stopped"
    /\ \E i \in Registered : processes[i].state = "Errored"


\* A Spawn returns success in this step.
SpawnReturnsOk == Returns("spawn") /\ cmd'.ok

\* C15: the ids of successful Spawn calls are strictly increasing: every
\* registered id lies below next_id, a successful Spawn returns next_id,
\* registers exactly that id and moves next_id up by one, no other step
\* registers an id or moves next_id, and an entry that stays registered
\* keeps its name under its id.
C15_IdsIncrease ==
    /\ [] ( \A i \in Registered : i < next_id )
    /\ [][ /\ SpawnReturnsOk =>
                /\ cmd'.id = next_id
                /\ cmd'.id \notin Registered
                /\ Registered' = Registered \cup { cmd'.id }
                /\ next_id' = next_id + 1
           /\ ~SpawnReturnsOk =>
                /\ Registered' \subseteq Registered
                /\ next_id' = next_id
           /\ \A i \in Registered \cap Registered' :
                processes'[i].name = processes[i].name ]_vars

\* An entry was deleted and a later Spawn has returned a higher id: the id
\* of the deleted entry is not in use and has not been given out again.
C15_Witness ==
    /\ cmd.pc = "done" /\ cmd.op = "spawn" /\ cmd.ok
    /\ cmd.id = FirstId + 1
    /\ Registered = { FirstId + 1 }


\* The configuration breaks a rule of the configuration format: empty name,
\* no restart allowed, or a stop signal outside the accepted names.
InvalidConfig(cfg) ==
    \/ cfg.name = <<>>
    \/ cfg.max_restarts = 0
    \/ cfg.stop_signal \notin ValidSignals

\* C16: a Spawn under a name that is registered fails with AlreadyExists, a
\* Spawn of an invalid configuration fails with a validation error unless
\* the name check has rejected it before, and a Spawn whose script does not
\* exist fails with SpawnError unless an earlier check has rejected it; a
\* Spawn that fails leaves the entries, the id allocator and the process
\* table as they were and has started no child.
C16_SpawnFailures ==
    [][ Returns("spawn") =>
          LET cfg == cmd'.config
              taken == NameTaken(processes, cfg.name)
          IN  /\ taken => ~cmd'.ok /\ cmd'.err = "AlreadyExists"
              /\ ( ~taken /\ InvalidConfig(cfg) ) =>
                     ~cmd'.ok /\ cmd'.err = "ConfigInvalid"
              /\ ( ~taken /\ ~InvalidConfig(cfg) /\ ~cmd'.script_exists ) =>
                     ~cmd'.ok /\ cmd'.err = "SpawnError"
              /\ ~cmd'.ok =>
                     /\ processes' = processes
                     /\ next_id' = next_id
                     /\ os' = os
                     /\ nspawn' = nspawn ]_vars

\* A Spawn has failed on a script that does not exist while an entry is
\* registered.
C16_Witness ==
    /\ cmd.pc = "done" /\ cmd.op = "spawn"
    /\ ~cmd.ok /\ cmd.err = "SpawnError"
    /\ ~cmd.script_exists
    /\ Registered # {}


\* try_auto_restart returns in this step because should_restart has denied
\* the restart of the registered entry with id i, whose policy is enabled.
Denied(i) ==
    /\ sup.pc = "pending" /\ sup'.pc # "sleep" /\ sup' # sup
    /\ i = Head(sup.crashed)
    /\ i \in Registered
    /\ processes[i].config.autorestart
    /\ ~ShouldRestart(Policy(processes[i]), processes[i].tracker)

\* C17: when should_restart denies an auto-restart, the tracker of the entry
\* holds at most max_restarts timestamps inside the window, whatever mix of
\* automatic and manual restarts has filled it.
C17_DeniedWithinBudget ==
    [][ \A i \in 1..MaxId :
          Denied(i) =>
            RecentRestarts(processes[i]) <= processes[i].config.max_restarts ]_vars


\* C18: an entry becomes Errored only from Running: no step takes an entry
\* that is Stopped, Stopping or Starting to Errored.
C18_ErroredOnlyFromRunning ==
    [][ \A i \in Registered \cap Registered' :
          ( processes'[i].state = "Errored" /\ processes[i].state # "Errored" )
              => processes[i].state = "Running" ]_vars


\* C19: an entry becomes Stopped only as the last step of a stop that a
\* command handler runs (Stop, or the stop inside Restart, rolling restart
\* and Delete): the step is the handler's, under its write lock, and leaves
\* the child reaped.  No step of the supervisor or of the environment, and
\* no exit of a child, takes an entry to Stopped.
C19_StoppedOnlyByStop ==
    [][ \A i \in Registered \cap Registered' :
          ( processes'[i].state = "Stopped" /\ processes[i].state # "Stopped" )
              => /\ cmd' # cmd
                 /\ cmd'.op \in { "stop", "restart", "rolling", "delete" }
                 /\ cmd'.id = i
                 /\ sup' = sup
                 /\ lock' = "client"
                 /\ processes'[i].reaped ]_vars

\* A Restart has stopped its entry and then failed to spawn: the entry is
\* left Stopped by the stop inside the Restart.
C19_Witness ==
    /\ cmd.pc = "done" /\ cmd.op = "restart"
    /\ ~cmd.ok /\ cmd.err = "SpawnError"
    /\ cmd.id \in Registered
    /\ processes[cmd.id].state = "Stopped"


\* C20: the id of every response the server writes equals the id of the
\* request it has read on the connection, whatever id the handler has put
\* into its Response and whether the handler has returned Ok or Err.
C20_ResponseIdMatches ==
    conn.pc = "written" =>
        /\ ParseId(conn.response) = ParseId(conn.request)
        /\ ParseId(conn.response) # ParseError

\* A response has been written for a handler that returned Ok with an id
\* of its own, different from the id of the request.
C20_Witness ==
    /\ conn.pc = "written"
    /\ conn.handler_ok
    /\ conn.handler_id # conn.request_id
    /\ Len(conn.request) = MaxRequestDigits


\* C21: a connection on which the server has read a request line is closed
\* only after the server has written one response line on it, also when
\* the line cannot be parsed as a request.
C21_OneResponseBeforeClose ==
    [][ ( conn.pc # "idle" /\ conn'.pc = "idle" )
          => ( conn.pc = "written" /\ conn.response # <<>> ) ]_vars


\* The snapshot has a version other than the current one, or two entries
\* with the same id, or two entries with the same name.
InvalidSnapshot(state) ==
    \/ state.version # "1.0.0"
    \/ \E j, k \in 1..Len(state.processes) :
         /\ j # k
         /\ \/ state.processes[j].id = state.processes[k].id
            \/ state.processes[j].name = state.processes[k].name

\* C22: a start of the daemon on a snapshot file with another version or
\* with two entries of the same id or name fails with a state-corruption
\* error and restores nothing; a save of such a state is rejected with the
\* same error before any file is touched; and whenever the state file
\* changes, its new content is a snapshot that is not of that kind.
C22_SnapshotValidation ==
    /\ [](store.pc = "failed" => processes = << >>)
    /\ [][ /\ ( /\ store.pc = "down"
                /\ store'.pc \in { "restoring", "failed" }
                /\ store.file.exists
                /\ Parses(store.file.data)
                /\ InvalidSnapshot(Deserialize(store.file.data)) )
              => ( /\ store'.pc = "failed"
                   /\ store'.err = "StateCorruption"
                   /\ processes' = << >> )
           /\ ( /\ store.pc \in { "down", "up" }
                /\ store'.pc \in { "save_create", "saved" }
                /\ InvalidSnapshot(store'.state) )
              => ( /\ store'.pc = "saved"
                   /\ store'.err = "StateCorruption"
                   /\ store'.file = store.file
                   /\ store'.tmp = store.tmp )
           /\ store'.file # store.file
              => ( /\ store'.file.exists
                   /\ Parses(store'.file.data)
                   /\ ~InvalidSnapshot(Deserialize(store'.file.data)) ) ]_vars

\* A save of a state with two entries of the same name has been rejected,
\* and the state file still holds the snapshot it held before.
C22_Witness ==
    /\ store.pc = "saved"
    /\ store.err = "StateCorruption"
    /\ store.state.version = "1.0.0"
    /\ Len(store.state.processes) = 2
    /\ store.state.processes[1].id # store.state.processes[2].id
    /\ store.file.exists
    /\ store.file = store.old


\* The fields of a snapshot that a reload is to keep, entry by entry.
Kept(state) ==
    { [ id |-> state.processes[k].id,
        name |-> state.processes[k].name,
        state |-> state.processes[k].state,
        autorestart |-> state.processes[k].autorestart,
        max_restarts |-> state.processes[k].max_restarts ] :
      k \in 1..Len(state.processes) }

\* The daemon was started on the snapshot of a clean shutdown, every entry
\* of it was respawned, and the registry is as the restore left it.
RestoredUntouched ==
    /\ store.pc = "up"
    /\ store.pure
    /\ processes = store.restored

\* C23: when the daemon, started on the snapshot of a clean shutdown with
\* every entry respawned and nothing changed since, shuts down cleanly, the
\* snapshot it builds has the same entries as the one it loaded, each with
\* the same id, name, state, autorestart and max_restarts.
C23_SnapshotFixedPoint ==
    [][ ( RestoredUntouched /\ store'.pc \in { "save_create", "saved" } )
          => Kept(store'.state) = Kept(store.state) ]_vars


\* One round of the restore loop is taken on the persisted entry e (the
\* step is not the death of the daemon).
RestoreStep(e) ==
    /\ store.pc = "restoring"
    /\ store.queue # <<>>
    /\ e = Head(store.queue)
    /\ store' # store
    /\ store'.pc # "down"

\* Entry i is new in the registry, runs a child created in this step under
\* the name of e, and has no restart counted.
RespawnedAs(i, e) ==
    /\ i \notin DOMAIN processes
    /\ processes'[i].name = e.name
    /\ processes'[i].state = "Running"
    /\ processes'[i].restarts = 0
    /\ os[processes'[i].pid] # "alive"
    /\ os'[processes'[i].pid] = "alive"

\* C24: each round of the restore loop at startup takes the next persisted
\* entry and leaves the remaining ones to be restored, whether its spawn
\* succeeds or fails; when it succeeds, the registry has one more entry,
\* Running under the persisted name with a fresh pid and restarts = 0
\* whatever state, pid and restarts were persisted, and with the config the
\* entry had when the snapshot was taken.
C24_RestoreRespawns ==
    [][ \A e \in { store.queue[k] : k \in 1..Len(store.queue) } :
          RestoreStep(e) =>
            /\ store'.pc = "restoring"
            /\ store'.queue = Tail(store.queue)
            /\ processes' # processes =>
                 \E i \in DOMAIN processes' :
                   /\ DOMAIN processes' = DOMAIN processes \cup { i }
                   /\ RespawnedAs(i, e)
                   /\ \A j \in DOMAIN processes : processes'[j] = processes[j]
                   /\ store.pure =>
                        \E b \in DOMAIN store.base :
                          /\ store.base[b].name = e.name
                          /\ processes'[i].config = store.base[b].config ]_vars


\* The file holds the whole document of the state being saved.
CompleteNew(file) ==
    file = [ exists |-> TRUE, data |-> Serialize(store.state) ]

\* C25: the state file, when it exists, always holds a complete snapshot;
\* from the beginning of a save to its return the file is the one found at
\* the beginning or the complete new snapshot; and the file never changes
\* except to become the complete snapshot of the state being saved, also
\* when a file operation fails or the daemon dies part-way.
C25_AtomicSnapshot ==
    /\ [](store.file.exists => Parses(store.file.data))
    /\ [](store.pc \in { "save_create", "save_write", "save_rename", "saved" }
            => ( store.file = store.old \/ CompleteNew(store.file) ))
    /\ [][ store'.file # store.file
             => ( /\ store.pc = "save_rename"
                  /\ CompleteNew(store'.file) ) ]_vars

\* The saving process has died part-way through a save: the temporary
\* file holds a part of a document, and the state file still a whole
\* snapshot of two entries.
C25_Witness ==
    /\ store.pc = "down"
    /\ store.tmp.exists /\ store.tmp.data # <<>>
    /\ ~Parses(store.tmp.data)
    /\ store.file.exists
    /\ Len(store.file.data) = 4


\* The entries a Delete of the name target is to remove.
NamedBy(target) ==
    { i \in Registered :
        \/ processes[i].name = target
        \/ /\ Len(processes[i].name) > Len(target)
           /\ SubSeq(processes[i].name, 1, Len(target)) = target }

\* A Delete aimed at the entries T has succeeded: exactly they are gone,
\* none of their children is alive, and every other entry is as it was.
DeletedExactly(T) ==
    /\ DOMAIN processes' = DOMAIN processes \ T
    /\ \A j \in DOMAIN processes' : processes'[j] = processes[j]
    /\ \A i \in T : os'[processes[i].pid] # "alive"

\* C26: a Delete by id succeeds for a registered entry that is Running,
\* Stopped or Errored, and a Delete that succeeds, by id or by name, has
\* removed exactly the entry of that id, or exactly the entries named by
\* the target, each with its child stopped, and has left every other entry
\* unchanged.
C26_DeleteExact ==
    [][ /\ \A id \in 1..MaxId :
             ClientDelete(TRUE, id, <<>>) =>
               /\ ( /\ id \in Registered
                    /\ processes[id].state \in { "Running", "Stopped", "Errored" } )
                    => cmd'.ok
               /\ cmd'.ok => DeletedExactly({ id })
        /\ \A target \in TargetInputs :
             ClientDelete(FALSE, NoId, target) =>
               ( cmd'.ok => DeletedExactly(NamedBy(target)) ) ]_vars


\* The names Start gives to n instances of base b.
ReplicaNames(b, n) ==
    IF n = 1 THEN { b } ELSE { Append(b, IdxTok(k)) : k \in 0..(n - 1) }

\* A Start command returns after an environment that let every child be
\* created and every log file be opened.
StartUnhindered ==
    /\ Returns("start")
    /\ cmd'.config.instances >= 1
    /\ \A k \in DOMAIN cmd'.env : cmd'.env[k] = "ok"
    /\ nspawn + cmd'.config.instances <= limit

\* C27: a Start with instances = n and base name b, when none of the
\* names b-0 .. b-(n-1) (b itself when n = 1) is registered and every child
\* and logger can be created, adds exactly n entries with these names, each
\* under an id of its own and in Running, leaves the other entries alone,
\* and answers with the id of the first replica and the count n.
C27_StartReplicas ==
    [][ ( /\ StartUnhindered
          /\ \A nm \in ReplicaNames(cmd'.config.name, cmd'.config.instances) :
                ~NameTaken(processes, nm) )
        => LET b == cmd'.config.name
               n == cmd'.config.instances
               added == DOMAIN processes' \ DOMAIN processes
           IN /\ Cardinality(added) = n
              /\ { processes'[i].name : i \in added } = ReplicaNames(b, n)
              /\ \A i \in added : /\ processes'[i].state = "Running"
                                  /\ i >= next_id
              /\ \A i \in DOMAIN processes :
                    i \in DOMAIN processes' /\ processes'[i] = processes[i]
              /\ cmd'.ok
              /\ cmd'.count = n
              /\ cmd'.id \in added
              /\ processes'[cmd'.id].name =
                    (IF n = 1 THEN b ELSE Append(b, IdxTok(0)))
              /\ \A i \in added : cmd'.id <= i ]_vars

\* A Start of several replicas has answered with all of them counted.
C27_Witness ==
    /\ cmd.pc = "done" /\ cmd.op = "start" /\ cmd.ok
    /\ cmd.config.instances > 1
    /\ cmd.count = cmd.config.instances
    /\ \A nm \in ReplicaNames(cmd.config.name, cmd.config.instances) :
          \E i \in Registered : processes[i].name = nm
                                  /\ processes[i].state = "Running"

\* A Start of a single instance has answered.
C27_WitnessSingle ==
    /\ cmd.pc = "done" /\ cmd.op = "start" /\ cmd.ok
    /\ cmd.config.instances = 1 /\ cmd.count = 1
    /\ processes[cmd.id].name = cmd.config.name


\* A Start or StartFromConfig command returns after attempting several
\* instances, not all of which it counts as started.
PartialStart ==
    /\ Returns("start") \/ Returns("start_config")
    /\ Len(cmd'.env) > 1
    /\ cmd'.count < Len(cmd'.env)

\* C28: when Start or StartFromConfig attempts several instances and some
\* attempts fail, no entry is removed, the started count of the response
\* is the number of entries the command added to the registry, and, for
\* StartFromConfig, started plus failed is the number of instances
\* attempted.
C28_PartialCounts ==
    [][ PartialStart
        => /\ \A i \in DOMAIN processes : i \in DOMAIN processes'
           /\ cmd'.count = Cardinality(DOMAIN processes' \ DOMAIN processes)
           /\ cmd'.op = "start_config"
                => cmd'.count + cmd'.failed = Len(cmd'.env) ]_vars


\* C29: for the Exponential strategy with any initial_delay_secs and
\* max_delay_secs, the delay never exceeds max_delay_secs, the delay for
\* restart count n + 1 is not below the delay for n, and once the delay is
\* max_delay_secs it is max_delay_secs for every larger count.
C29_BackoffMonotonic ==
    /\ [](backoff.delay <= backoff.max)
    /\ [][ backoff'.count = backoff.count + 1
           => /\ backoff.delay <= backoff'.delay
              /\ backoff.delay = backoff.max
                   => backoff'.delay = backoff.max ]_vars


\* The entries the tick finds above a ceiling.
AboveMemory(i) ==
    /\ processes[i].config.max_memory # NoLimit
    /\ mon.stats[i].memory_usage > processes[i].config.max_memory

AboveCpu(i) ==
    /\ processes[i].config.max_cpu # NoLimit
    /\ mon.stats[i].cpu_usage > processes[i].config.max_cpu

\* An enforcer tick during which a child can be created for every entry
\* the tick restarts.
EnforcerTicks ==
    /\ \E order \in Perms(Registered) : EnforcerTickIn(order, TRUE)
    /\ nspawn + Cardinality({ i \in Registered :
                                /\ AboveMemory(i) \/ AboveCpu(i)
                                /\ processes[i].config.limit_action = "Restart" })
         <= limit

\* What the tick does to entry i, as the claim states it.
EnforcedOn(i) ==
    LET p == processes[i]
        s == mon.stats[i]
        p2 == processes'[i]
        s2 == mon'.stats[i]
    IN  /\ i \in DOMAIN processes'
        /\ s2.memory_violations =
             s.memory_violations + (IF AboveMemory(i) THEN 1 ELSE 0)
        /\ s2.cpu_violations =
             s.cpu_violations + (IF AboveCpu(i) THEN 1 ELSE 0)
        /\ IF ~(AboveMemory(i) \/ AboveCpu(i)) THEN p2 = p
           ELSE CASE p.config.limit_action = "Log" ->
                       /\ p2.state = p.state
                       /\ p2.pid = p.pid /\ p2.reaped = p.reaped
                  [] p.config.limit_action = "Restart" ->
                       /\ p2.state = "Running"
                       /\ p2.restarts = p.restarts + 1
                       /\ p2.pid # p.pid /\ os'[p2.pid] = "alive"
                  [] OTHER ->
                       /\ p2.state = "Stopped" /\ p2.reaped

NoClientStep == cmd' = cmd

\* Entry p2 is entry p with nothing recorded: same state, child, restart
\* count, configuration and number of restart timestamps (the model keeps
\* the age of each timestamp, which grows with time).
SameEntry(p, p2) ==
    /\ [ p2 EXCEPT !.tracker = << >> ] = [ p EXCEPT !.tracker = << >> ]
    /\ Len(p2.tracker) = Len(p.tracker)

\* C31: an entry with autorestart disabled whose child has died is marked
\* Errored when the supervisor detects it, and from then on no step other
\* than a client command changes it: it stays registered and Errored with
\* the same child, restart count and tracker.
C31_DisabledStaysErrored ==
    [][ \A i \in Registered :
          ( ~processes[i].config.autorestart /\ NoClientStep )
          => /\ ( /\ processes[i].state = "Running"
                  /\ CertainlyGone(os, processes[i].pid)
                  /\ sup.pc = "idle" /\ sup'.pc # "idle" )
                => processes'[i].state = "Errored"
             /\ processes[i].state = "Errored"
                => /\ i \in DOMAIN processes'
                   /\ SameEntry(processes[i], processes'[i]) ]_vars

\* An entry with autorestart disabled is Errored, and the supervisor has
\* been through the crashed entries of its tick.
C31_Witness ==
    /\ sup.pc = "idle" /\ lock = "free" /\ cmd.pc = "idle"
    /\ \E i \in Registered : /\ ~processes[i].config.autorestart
                             /\ processes[i].state = "Errored"
                             /\ processes[i].restarts = 0
                             /\ processes[i].tracker = <<>>


\* The supervisor installs a child for the id at the head of its list in
\* this step.
SupInstalls(id) ==
    /\ sup.pc = "sleep"
    /\ sup'.pc # "sleep"
    /\ id = Head(sup.crashed)
    /\ processes'[id].pid # processes[id].pid

\* C32: the supervisor installs a new child only for an entry that is
\* Errored at the moment of the respawn; an entry a client has stopped or
\* restarted since the crash was detected is left as the client left it.
C32_RespawnOnlyErrored ==
    [][ \A id \in Registered :
          SupInstalls(id) => processes[id].state = "Errored" ]_vars


\* The auto-restart of entry id is waiting out its backoff delay.
BackoffWaiting(id) ==
    /\ sup.pc = "sleep"
    /\ sup.remaining > 0
    /\ Head(sup.crashed) = id

HealthInstalls(id) ==
    /\ sup.pc = "health_sleep"
    /\ sup'.pc # "health_sleep"
    /\ id = Head(sup.crashed)
    /\ processes'[id].restarts = processes[id].restarts + 1

\* C34: an id whose auto-restart is waiting or respawning is in the
\* restarting set; an id that is in the set is not restarted again, so no
\* entry that a cycle has already brought back to Running is respawned in
\* the same cycle; and when a health-check cycle has completed the set
\* holds no id at all, whatever the outcome for each crashed id was.
C34_RestartingSet ==
    /\ [] ( sup.pc = "health_sleep" => Head(sup.crashed) \in sup.restarting )
    /\ [] ( sup.pc = "idle" => sup.restarting = {} )
    /\ [][ \A id \in Registered :
             HealthInstalls(id) => /\ processes[id].state # "Running"
                                   /\ id \in sup.restarting ]_vars

\* A health-check cycle has completed after restarting an entry.
C34_Witness ==
    /\ sup.pc = "idle"
    /\ \E id \in Registered : /\ processes[id].state = "Running"
                              /\ processes[id].restarts > 0



\* The supervisor is done with the crashed id at the head of its list in
\* this step.
HeadHandled == sup.pc # "idle" /\ sup'.crashed # sup.crashed

\* C35: within one health-check cycle every crashed id is handled in turn,
\* also after a failure on an earlier one (restart denied by the policy,
\* child not created, entry not found): the failure is logged, the next
\* crashed id is taken up, and after the last one the cycle completes and
\* gives the registry back.
C35_FailureDoesNotStopTick ==
    [][ HeadHandled =>
          /\ sup'.errors \in { sup.errors, sup.errors + 1 }
          /\ IF Len(sup.crashed) > 1
               THEN /\ sup'.crashed = Tail(sup.crashed)
                    /\ sup'.pc \in { "pending", "health_pending" }
               ELSE /\ sup'.pc = "idle"
                    /\ lock' = "free" ]_vars

\* A crashed entry has failed to restart in this cycle, and the cycle is
\* about to handle the next crashed entry.
C35_Witness ==
    /\ sup.pc = "health_pending"
    /\ sup.errors > 0



\* min(initial * 2^n, max) with a product that stops at the largest value
\* of the integer type.
ExpectedDelay(initial, n, max) == Min(SatMul(initial, SatPow(2, n)), max)

\* C36: for every restart count n the Exponential delay is
\* min(initial * 2^n, max_delay_secs), the product saturating, and the
\* Fixed delay is initial.
C36_DelayFormula ==
    /\ backoff.delay = ExpectedDelay(backoff.initial, backoff.count, backoff.max)
    /\ backoff.fixed = backoff.initial


\* C37: after a tick of the stats loop that refreshes the process table,
\* every Running entry whose child is alive has the CPU and memory use of
\* the refreshed row of its pid in its stats, and the stats of every entry
\* that is not Running are as before.
C37_StatsRefreshed ==
    [][ UpdateAllStats(TRUE) =>
          \A i \in Registered :
            IF processes[i].state = "Running"
              THEN os[processes[i].pid] = "alive"
                   => /\ mon'.stats[i].cpu_usage = mon'.system[processes[i].pid].cpu
                      /\ mon'.stats[i].memory_usage = mon'.system[processes[i].pid].mem
              ELSE mon'.stats[i] = mon.stats[i] ]_vars


\* The ids of the entries a file holds.
EntryIds(file) == { file[k].id : k \in 1..Len(file) }

\* An entry is appended to the stream in this step.
Appends(entry) ==
    /\ log'.written = log.written \cup { entry.id }
    /\ entry.id \notin log.written
    /\ Len(log'.file) > 0
    /\ entry = log'.file[Len(log'.file)]

\* C38: a write that finds the tracked size at max_size or above renames
\* the current file to the rotated name of the current second and puts its
\* entry first into a fresh file, whose tracked size is then the length of
\* that entry; a write that finds the tracked size below max_size appends
\* to the current file and rotates nothing; and every entry written is in
\* the current file or in one of the rotated files.
C38_RotationKeepsEntries ==
    /\ [][ \A entry \in [ id : 1..MaxEntries, len : 0..(PrefixLen + 5) ] :
             Appends(entry)
             => IF log.size >= log.max_size
                  THEN /\ log.now \in DOMAIN log'.rotated
                       /\ log'.rotated[log.now] = log.file
                       /\ log'.file = << entry >>
                       /\ log'.size = entry.len
                  ELSE /\ log'.file = Append(log.file, entry)
                       /\ log'.rotated = log.rotated ]_vars
    /\ [][ log'.rotated # log.rotated => log.size >= log.max_size ]_vars
    /\ [] ( \A id \in log.written :
              \/ id \in EntryIds(log.file)
              \/ \E t \in DOMAIN log.rotated : id \in EntryIds(log.rotated[t]) )


\* C39: when a Stop of a registered entry returns, with success or with an
\* error, the entry is not left in the transient state Stopping.
C39_StopLeavesNoStopping ==
    [][ ( Returns("stop") /\ cmd'.id \in Registered )
        => processes'[cmd'.id].state # "Stopping" ]_vars


\* Restart returns the error of spawn_process in this step.
RestartSpawnFails == Returns("restart") /\ cmd'.err = "SpawnError"

\* C40: a Restart whose stop succeeded and whose respawn failed returns the
\* spawn error and leaves the entry registered and Stopped, with the
\* restart count, the pid and the number of restart timestamps it had
\* before the call.
C40_FailedRespawnNotCounted ==
    [][ RestartSpawnFails
        => /\ ~cmd'.ok
           /\ cmd'.id \in Registered
           /\ cmd'.id \in DOMAIN processes'
           /\ LET before == cmd'.pre[cmd'.id]
                  after == processes'[cmd'.id]
              IN  /\ after.state = "Stopped"
                  /\ after.restarts = before.restarts
                  /\ after.pid = before.pid
                  /\ Len(after.tracker) = Len(before.tracker) ]_vars

\* A Restart has returned the spawn error after stopping a child that was
\* running.
C40_Witness ==
    /\ cmd.pc = "done" /\ cmd.op = "restart" /\ cmd.err = "SpawnError"
    /\ cmd.pre[cmd.id].state = "Running"
    /\ processes[cmd.id].state = "Stopped"

====
